---------------------------- MODULE Spec2Model ----------------------------
(***************************************************************************)
(* A model of the parsing and matching core of protoc-adapter-py:          *)
(*   models.normalize, matcher.match_messages / _match_fields,             *)
(*   the two tokenizers, the two recursive descent parsers, the C++        *)
(*   transformer with its alias resolution, and the line based C++ field   *)
(*   parser of cpp_parser.py.                                              *)
(*                                                                         *)
(* Strings are sequences of one-character strings, so that normalize,      *)
(* the tokenizers and the regular expressions work on characters.          *)
(* Object identity (a Field held in a Message, a Message in a list) is an  *)
(* index into the list that holds the object.                              *)
(***************************************************************************)
EXTENDS Integers, Sequences, FiniteSets, TLC

VARIABLES
    \* ---- matcher.match_messages ----
    proto_messages,   \* the proto_messages argument
    cpp_messages,     \* the cpp_messages argument; its Fields are mutated in place
    matches,          \* the local list `matches`
    mappings,         \* the local list `mappings` of the running _match_fields call
    mi,               \* position of the `for proto_msg` loop (1-based)
    fi,               \* position of the `for proto_field` loop (1-based)
    mpc,              \* "idle" | "loop" | "fields" | "returned" | "raised"
    result,           \* the returned list, None before the return and after a raise
    \* ---- models.normalize ----
    n_name,           \* a name
    n_variant,        \* a name that differs from n_name in case and underscores only
    n_out,            \* normalize(n_name), normalize(n_variant) and
                      \* normalize(normalize(n_variant)) once computed, else None
    npc,              \* "idle" | "edit" | "done"
    \* ---- cpp_tokenizer.tokenize_cpp, proto_tokenizer.tokenize_proto ----
    t_lang,           \* "cpp" | "proto": the tokenizer that runs
    text,             \* the argument `text`
    t_i,              \* the local `i` (0-based, as in the source)
    line,             \* the local `line`
    col,              \* the local `col`
    tokens,           \* the local list `tokens`
    tpc,              \* "idle" | "scan" | "returned"
    \* ---- the C++ pipelines: CppParser.parse, transform_cpp, parse_cpp_header ----
    ast,              \* what CppParser(tokens).parse() gave: None before the call,
                      \* then the CppHeader or the CppParseError it raised
    tok_messages,     \* the list transform_cpp(ast) returned, None before
    re_messages,      \* the list parse_cpp_header returned, None before
    \* ---- one call of cpp_transform._resolve_alias inside transform_cpp ----
    a_aliases,        \* the dict `aliases` of transform_cpp
    a_arg,            \* the argument `name` of the call
    a_name,           \* the local `name`
    a_seen,           \* the local set `seen`
    a_result,         \* the returned name, None before the return
    apc,              \* "idle" | "start" | "built" | "loop" | "returned"
    \* ---- the proto pipelines: ProtoParser.parse, transform_proto, parse_proto_file ----
    p_ast,            \* what ProtoParser(tokens).parse() gave: None before the call,
                      \* then the ProtoFile or the ProtoParseError it raised
    p_tok_messages,   \* the list transform_proto(ast) returned, None before
    p_re_messages,    \* the list parse_proto_file returned, None before
    \* ---- the input of a pipeline run on a generated file ----
    f_decls,          \* the items of the record body that `text` was written from
    f_sibling,        \* whether `text` defines a second record at top level
    \* ---- a run of the whole pipeline on one .proto file and one header ----
    rpc,              \* "idle" | "proto" | "cpp" | "match" | "done" | "exit 0" | "exit 1"
    proto_file,       \* the text of the .proto file
    cpp_file,         \* the text of the header file
    \* ---- the calls of rep_message_handler on one list of proto messages ----
    h_given,          \* the list as it was before strip_msg_header_fields
    h_messages,       \* the list `proto_messages`, whose messages strip changes in place
    stripped_fields,  \* the dict strip_msg_header_fields returned
    msg_header_def,   \* what resolve_msg_header_definition returned
    h_matches_given,  \* the matches as they were before inject_header_field_mappings
    h_matches,        \* the list `matches`, changed in place by the injection
    header_match,     \* what build_web_service_reply_header_match returned, None before
    hpc,              \* "idle" | "start" | "stripped" | "resolved" | "removed"
                      \* | "matched" | "injected" | "built"
    \* ---- one call of CppParser.parse or ProtoParser.parse on `tokens` ----
    self_pos,         \* self._pos (0-based, as in the source)
    acc_aliases,      \* the local list `type_aliases` of CppParser.parse
    acc_structs,      \* the local list `structs` of CppParser.parse
    acc_messages,     \* the local list `messages` of ProtoParser.parse
    ppc               \* "idle" | "loop" | "returned" | "raised"

matchVars == <<proto_messages, cpp_messages, matches, mappings, mi, fi, mpc, result>>
normVars == <<n_name, n_variant, n_out, npc>>
tokVars == <<t_lang, text, t_i, line, col, tokens, tpc>>

cppVars == <<ast, tok_messages, re_messages>>
aliasVars == <<a_aliases, a_arg, a_name, a_seen, a_result, apc>>
protoVars == <<p_ast, p_tok_messages, p_re_messages>>
fileVars == <<f_decls, f_sibling>>
runVars == <<rpc, proto_file, cpp_file>>
repVars == <<h_given, h_messages, stripped_fields, msg_header_def,
             h_matches_given, h_matches, header_match, hpc>>
parseVars == <<self_pos, acc_aliases, acc_structs, acc_messages, ppc>>

vars == <<matchVars, normVars, tokVars, cppVars, aliasVars, protoVars, fileVars, runVars, repVars, parseVars>>

\* what the steps of one component leave alone
notMatchVars == <<normVars, tokVars, cppVars, aliasVars, protoVars, fileVars, runVars, repVars, parseVars>>
notNormVars == <<matchVars, tokVars, cppVars, aliasVars, protoVars, fileVars, runVars, repVars, parseVars>>
notTokVars == <<matchVars, normVars, cppVars, aliasVars, protoVars, fileVars, runVars, repVars, parseVars>>
notCppVars == <<matchVars, normVars, tokVars, aliasVars, protoVars, fileVars, runVars, repVars, parseVars>>
notAliasVars == <<matchVars, normVars, tokVars, cppVars, protoVars, fileVars, runVars, repVars, parseVars>>
notProtoVars == <<matchVars, normVars, tokVars, cppVars, aliasVars, fileVars, runVars, repVars, parseVars>>
notRepVars == <<matchVars, normVars, tokVars, cppVars, aliasVars, protoVars, fileVars, runVars, parseVars>>
notParseVars == <<matchVars, normVars, tokVars, cppVars, aliasVars, protoVars, fileVars, runVars, repVars>>

\* Python's None; an optional value is a sequence, <<>> for None and <<v>> for
\* the value v (an object reference is <<position>>)
None == <<>>
Some(v) == <<v>>
Val(o) == o[1]

\* ------------------------------------------------------------------------
\* Bounds of the model
\* ------------------------------------------------------------------------
MaxProto == 2
MaxFields == 2
MaxCpp == 2
MaxNameLen == 3
MaxTextLen == 3
MaxDecls == 2
MaxTypedefs == 2

\* ------------------------------------------------------------------------
\* Characters and models.normalize
\* ------------------------------------------------------------------------
LowerCase == <<"a","b","c","d","e","f","g","h","i","j","k","l","m",
               "n","o","p","q","r","s","t","u","v","w","x","y","z">>
UpperCase == <<"A","B","C","D","E","F","G","H","I","J","K","L","M",
               "N","O","P","Q","R","S","T","U","V","W","X","Y","Z">>
Digits == {"0","1","2","3","4","5","6","7","8","9"}

IsLower(c) == \E i \in 1..26 : LowerCase[i] = c
IsUpper(c) == \E i \in 1..26 : UpperCase[i] = c
IsAlpha(c) == IsLower(c) \/ IsUpper(c)
IsDigit(c) == c \in Digits
IsAlnum(c) == IsAlpha(c) \/ IsDigit(c)

\* str.upper() on one character
upper_char(c) ==
    IF IsLower(c) THEN UpperCase[CHOOSE i \in 1..26 : LowerCase[i] = c] ELSE c

\* str.replace("_", "")
RECURSIVE remove_underscores(_)
remove_underscores(s) ==
    IF s = <<>> THEN <<>>
    ELSE IF Head(s) = "_" THEN remove_underscores(Tail(s))
         ELSE <<Head(s)>> \o remove_underscores(Tail(s))

\* str.upper()
upper(s) == [i \in 1..Len(s) |-> upper_char(s[i])]

\* mutant of normalize: only the first underscore is removed
RECURSIVE remove_first_underscore(_)
remove_first_underscore(s) ==
    IF s = <<>> THEN <<>>
    ELSE IF Head(s) = "_" THEN Tail(s)
         ELSE <<Head(s)>> \o remove_first_underscore(Tail(s))

normalize_first_only(name) == upper(remove_first_underscore(name))

\* mutant of normalize: underscores are removed, case is kept
normalize_keep_case(name) == remove_underscores(name)

\* models.normalize
normalize(name) == upper(remove_underscores(name))

\* ------------------------------------------------------------------------
\* models.Field, models.Message
\* ------------------------------------------------------------------------
\* Field(original_name, normalized_name, type_name, is_repeated, is_nested,
\* nested_type); normalized_name is normalize(original_name), as every
\* constructor call of the repository passes it.
Field(name, type_name, is_repeated, is_nested, nested_type) ==
    [original_name |-> name, normalized_name |-> normalize(name),
     type_name |-> type_name, is_repeated |-> is_repeated,
     is_nested |-> is_nested, nested_type |-> nested_type]

Message(name, fields) ==
    [original_name |-> name, normalized_name |-> normalize(name), fields |-> fields]

\* ------------------------------------------------------------------------
\* Inputs of match_messages
\* ------------------------------------------------------------------------
\* strictly increasing index sequences of length <= max over 1..n
IncSeqs(n, max) ==
    { s \in UNION { [1..k -> 1..n] : k \in 0..max } :
        \A i \in 1..(Len(s) - 1) : s[i] < s[i + 1] }

n_a_b == <<"a","_","b">>
n_Ab == <<"A","b">>
n_A_B == <<"A","_","B">>
n_C == <<"C">>
n_D == <<"D">>
n_x_y == <<"x","_","y">>
n_xY == <<"x","Y">>
n_z == <<"z">>
n_w == <<"w">>
t_int32 == <<"i","n","t","3","2">>
t_int == <<"i","n","t">>
t_char == <<"c","h","a","r">>

\* proto side fields, built as tests/test_matcher.py builds them; the nested
\* type of a proto field is the referenced proto Message
ProtoFieldPool ==
    << Field(n_x_y, t_int32, FALSE, FALSE, None),
       Field(n_xY, n_a_b, TRUE, TRUE, None),
       Field(n_z, n_a_b, FALSE, TRUE, Some(Message(n_C, <<>>))),
       Field(n_w, n_D, TRUE, TRUE, None) >>

ProtoNamePool == << n_a_b, n_Ab, n_C >>

ProtoInputs ==
    UNION { { [i \in 1..Len(ns) |->
                 Message(ProtoNamePool[ns[i]],
                         [j \in 1..Len(fs[i]) |-> ProtoFieldPool[fs[i][j]]])] :
              fs \in [1..Len(ns) -> IncSeqs(Len(ProtoFieldPool), MaxFields)] } :
            ns \in IncSeqs(Len(ProtoNamePool), MaxProto) }

\* C++ side structs before linking; `linked` says that the transformer found
\* the field's type among the struct's own nested structs
CppField(name, type_name, is_repeated, linked) ==
    [f |-> Field(name, type_name, is_repeated, FALSE, None), linked |-> linked]

CppStructPool ==
    << Message(n_Ab, << CppField(n_xY, t_int, FALSE, FALSE),
                        CppField(n_z, n_C, FALSE, TRUE),
                        CppField(n_w, n_C, FALSE, TRUE) >>),
       Message(n_A_B, << CppField(n_x_y, t_int, TRUE, FALSE),
                         CppField(n_xY, n_C, FALSE, FALSE),
                         CppField(n_z, t_char, FALSE, FALSE) >>),
       Message(n_C, << CppField(n_z, t_char, FALSE, FALSE),
                       CppField(n_w, t_int, FALSE, FALSE) >>),
       Message(n_D, << >>) >>

\* the nested-type link of the transformer: is_nested and nested_type are set
\* when the field's type_name is the original_name of a struct of the list
LinkCppField(cf, msgs) ==
    IF cf.linked /\ \E k \in 1..Len(msgs) : msgs[k].original_name = cf.f.type_name
    THEN [cf.f EXCEPT !.is_nested = TRUE,
                      !.nested_type =
                         Some(CHOOSE k \in 1..Len(msgs) :
                                 msgs[k].original_name = cf.f.type_name)]
    ELSE cf.f

LinkCpp(msgs) ==
    [i \in 1..Len(msgs) |->
        [msgs[i] EXCEPT !.fields =
            [j \in 1..Len(msgs[i].fields) |-> LinkCppField(msgs[i].fields[j], msgs)]]]

CppInputs ==
    { LinkCpp([i \in 1..Len(s) |-> CppStructPool[s[i]]]) :
        s \in IncSeqs(Len(CppStructPool), MaxCpp) }

\* ------------------------------------------------------------------------
\* matcher.match_messages and matcher._match_fields
\* ------------------------------------------------------------------------
\* mutant of by_norm: the first entry with the name wins
by_norm_first(items, norm) ==
    IF \E i \in 1..Len(items) : items[i].normalized_name = norm
    THEN Some(CHOOSE i \in 1..Len(items) :
            /\ items[i].normalized_name = norm
            /\ \A k \in 1..Len(items) : items[k].normalized_name = norm => k >= i)
    ELSE None

\* {x.normalized_name: x for x in items}.get(norm): a later item overwrites an
\* earlier one of the same normalized name; the value is the item's position
by_norm(items, norm) ==
    IF \E i \in 1..Len(items) : items[i].normalized_name = norm
    THEN Some(CHOOSE i \in 1..Len(items) :
            /\ items[i].normalized_name = norm
            /\ \A k \in 1..Len(items) : items[k].normalized_name = norm => k <= i)
    ELSE None

\* cpp_by_norm.get(norm)
cpp_by_norm(norm) == by_norm(cpp_messages, norm)

\* mutant of nested_cpp: the lookup always goes by the declared type name
nested_cpp_by_type_name(proto_field) ==
    cpp_by_norm(normalize(proto_field.type_name))

\* the lookup of the nested C++ struct of a nested proto field
nested_cpp(proto_field) ==
    IF proto_field.nested_type # None
    THEN cpp_by_norm(Val(proto_field.nested_type).normalized_name)
    ELSE cpp_by_norm(normalize(proto_field.type_name))

\* mutant of pair_nested: the C++ field is left as the parser built it
pair_nested_skip(proto_field, cpp_field) == cpp_field

\* mutant of pair_nested: is_nested is set whenever the proto field is nested
pair_nested_always(proto_field, cpp_field) ==
    IF proto_field.is_nested
    THEN [cpp_field EXCEPT !.is_nested = TRUE,
                           !.nested_type = nested_cpp(proto_field)]
    ELSE cpp_field

\* `if proto_field.is_nested: ... cpp_field.is_nested = True;
\*  cpp_field.nested_type = nested_cpp`
pair_nested(proto_field, cpp_field) ==
    IF proto_field.is_nested /\ nested_cpp(proto_field) # None
    THEN [cpp_field EXCEPT !.is_nested = TRUE,
                           !.nested_type = nested_cpp(proto_field)]
    ELSE cpp_field

\* mutant of pair_repeated: the C++ field takes the flag of the proto field
pair_repeated_as_proto(proto_field, cpp_field) ==
    [cpp_field EXCEPT !.is_repeated = proto_field.is_repeated]

\* mutant of pair_repeated: the C++ declaration is kept
pair_repeated_keep(proto_field, cpp_field) == cpp_field

\* `if proto_field.is_repeated: cpp_field.is_repeated = True`
pair_repeated(proto_field, cpp_field) ==
    IF proto_field.is_repeated
    THEN [cpp_field EXCEPT !.is_repeated = TRUE]
    ELSE cpp_field

\* FieldMapping(proto_field, cpp_field): both are references, a proto field
\* is <<message position, field position>> in proto_messages, a C++ field the
\* same in cpp_messages, and None is <<>>
FieldMapping(proto_ref, cpp_ref) ==
    [proto_field |-> proto_ref, cpp_field |-> cpp_ref, is_reply_header |-> FALSE]

\* MessageMatch(proto_message, cpp_message, field_mappings)
MessageMatch(p, c, fms) ==
    [proto_message |-> p, cpp_message |-> c, field_mappings |-> fms]

proto_msg == proto_messages[mi]
cpp_msg == cpp_by_norm(proto_msg.normalized_name)
proto_field == proto_msg.fields[fi]
\* mutant of cpp_field: the first C++ field of the name is taken
cpp_field_first ==
    by_norm_first(cpp_messages[Val(cpp_msg)].fields, proto_field.normalized_name)

\* cpp_fields_by_norm.get(proto_field.normalized_name)
cpp_field == by_norm(cpp_messages[Val(cpp_msg)].fields, proto_field.normalized_name)

\* mutant of SkipGuard: a proto message is also skipped when it has no fields
SkipGuardEmpty == cpp_msg = None \/ proto_msg.fields = <<>>

\* `if cpp_msg is None: continue`
SkipGuard == cpp_msg = None

\* mutant of RaiseGuard: an unmatched proto field is passed over
RaiseGuardNever == FALSE

\* `if cpp_field is None: raise MatchError`
RaiseGuard == cpp_field = None

IdleNorm ==
    /\ n_name = <<>>
    /\ n_variant = <<>>
    /\ n_out = None
    /\ npc = "idle"

IdleTok ==
    /\ t_lang = "idle"
    /\ text = <<>>
    /\ t_i = 0
    /\ line = 1
    /\ col = 1
    /\ tokens = <<>>
    /\ tpc = "idle"

IdleCpp ==
    /\ ast = None
    /\ tok_messages = None
    /\ re_messages = None

IdleProto ==
    /\ p_ast = None
    /\ p_tok_messages = None
    /\ p_re_messages = None

IdleFile ==
    /\ f_decls = <<>>
    /\ f_sibling = FALSE

IdleRun ==
    /\ rpc = "idle"
    /\ proto_file = <<>>
    /\ cpp_file = <<>>

IdleParse ==
    /\ self_pos = 0
    /\ acc_aliases = <<>>
    /\ acc_structs = <<>>
    /\ acc_messages = <<>>
    /\ ppc = "idle"

IdleRep ==
    /\ h_given = <<>>
    /\ h_messages = <<>>
    /\ stripped_fields = <<>>
    /\ msg_header_def = None
    /\ h_matches_given = <<>>
    /\ h_matches = <<>>
    /\ header_match = None
    /\ hpc = "idle"

IdleAlias ==
    /\ a_aliases = <<>>
    /\ a_arg = <<>>
    /\ a_name = <<>>
    /\ a_seen = {}
    /\ a_result = None
    /\ apc = "idle"

IdleMatch ==
    /\ proto_messages = <<>>
    /\ cpp_messages = <<>>
    /\ matches = <<>>
    /\ mappings = <<>>
    /\ mi = 1
    /\ fi = 1
    /\ mpc = "idle"
    /\ result = None

InitMatch ==
    /\ IdleNorm /\ IdleTok /\ IdleCpp /\ IdleAlias /\ IdleProto /\ IdleFile /\ IdleRun /\ IdleRep /\ IdleParse
    /\ proto_messages \in ProtoInputs
    /\ cpp_messages \in CppInputs
    /\ matches = <<>>
    /\ mappings = <<>>
    /\ mi = 1
    /\ fi = 1
    /\ mpc = "loop"
    /\ result = None

\* one pass of `for proto_msg in proto_messages` whose message has no C++
\* counterpart
SkipProtoMessage ==
    /\ mpc = "loop"
    /\ mi <= Len(proto_messages)
    /\ SkipGuard
    /\ mi' = mi + 1
    /\ UNCHANGED <<proto_messages, cpp_messages, matches, mappings, fi, mpc, result>>

\* the call _match_fields(proto_msg, cpp_msg, cpp_by_norm) is entered
BeginMatchFields ==
    /\ mpc = "loop"
    /\ mi <= Len(proto_messages)
    /\ ~SkipGuard
    /\ mpc' = "fields"
    /\ fi' = 1
    /\ mappings' = <<>>
    /\ UNCHANGED <<proto_messages, cpp_messages, matches, mi, result>>

\* the cpp_messages argument as the caller passed it: the structs of these
\* names as the header parser linked them
cpp_given ==
    LinkCpp([k \in DOMAIN cpp_messages |->
                CppStructPool[CHOOSE i \in DOMAIN CppStructPool :
                                 CppStructPool[i].original_name =
                                    cpp_messages[k].original_name]])

\* mutant of RaiseMatchError: the C++ fields are put back before the raise
RaiseMatchErrorRollback ==
    /\ mpc = "fields"
    /\ fi <= Len(proto_msg.fields)
    /\ RaiseGuard
    /\ mpc' = "raised"
    /\ cpp_messages' = cpp_given
    /\ UNCHANGED <<proto_messages, matches, mappings, mi, fi, result>>

\* one pass of `for proto_field in proto_msg.fields` that raises MatchError
RaiseMatchError ==
    /\ mpc = "fields"
    /\ fi <= Len(proto_msg.fields)
    /\ RaiseGuard
    /\ mpc' = "raised"
    /\ UNCHANGED <<proto_messages, cpp_messages, matches, mappings, mi, fi, result>>

\* one pass of `for proto_field in proto_msg.fields` that pairs the field
\* (cpp_field is not None here, the raise comes first; the test below only
\* keeps the update defined)
MatchField ==
    /\ mpc = "fields"
    /\ fi <= Len(proto_msg.fields)
    /\ ~RaiseGuard
    /\ cpp_messages' =
          IF cpp_field = None THEN cpp_messages
          ELSE [cpp_messages EXCEPT ![Val(cpp_msg)].fields[Val(cpp_field)] =
                   pair_repeated(proto_field, pair_nested(proto_field, @))]
    /\ mappings' = Append(mappings,
                          FieldMapping(<<mi, fi>>, <<Val(cpp_msg)>> \o cpp_field))
    /\ fi' = fi + 1
    /\ UNCHANGED <<proto_messages, matches, mi, mpc, result>>

\* mutant of appended_match: the mapping of the first field is lost
appended_match_drop_first ==
    Append(matches, MessageMatch(mi, Val(cpp_msg),
                                 IF mappings = <<>> THEN mappings ELSE Tail(mappings)))

\* matches.append(MessageMatch(proto_msg, cpp_msg, field_mappings))
appended_match == Append(matches, MessageMatch(mi, Val(cpp_msg), mappings))

\* _match_fields returns and the match is appended
EndMatchFields ==
    /\ mpc = "fields"
    /\ fi > Len(proto_msg.fields)
    /\ matches' = appended_match
    /\ mappings' = <<>>
    /\ mi' = mi + 1
    /\ mpc' = "loop"
    /\ UNCHANGED <<proto_messages, cpp_messages, fi, result>>

\* `return matches`
ReturnMatches ==
    /\ mpc = "loop"
    /\ mi > Len(proto_messages)
    /\ result' = Some(matches)
    /\ mpc' = "returned"
    /\ UNCHANGED <<proto_messages, cpp_messages, matches, mappings, mi, fi>>

NextMatch ==
    \/ SkipProtoMessage /\ UNCHANGED notMatchVars
    \/ BeginMatchFields /\ UNCHANGED notMatchVars
    \/ RaiseMatchError /\ UNCHANGED notMatchVars
    \/ MatchField /\ UNCHANGED notMatchVars
    \/ EndMatchFields /\ UNCHANGED notMatchVars
    \/ ReturnMatches /\ UNCHANGED notMatchVars

SpecMatch == InitMatch /\ [][NextMatch]_vars

\* ------------------------------------------------------------------------
\* Claims about the matcher
\* ------------------------------------------------------------------------
\* the objects a reference stands for
ProtoFieldOf(ref) == proto_messages[ref[1]].fields[ref[2]]
CppFieldOf(ref) == cpp_messages[ref[1]].fields[ref[2]]

\* the C++ struct a proto message is paired with, stated on the input lists:
\* the last struct of the same normalized name
IsCounterpart(ci, p) ==
    /\ ci \in 1..Len(cpp_messages)
    /\ cpp_messages[ci].normalized_name = p.normalized_name
    /\ \A k \in (ci + 1)..Len(cpp_messages) :
          cpp_messages[k].normalized_name # p.normalized_name

HasCounterpart(p) == \E ci \in 1..Len(cpp_messages) : IsCounterpart(ci, p)

\* proto field f of proto message p has no C++ field of its normalized name
\* in p's counterpart
UnmatchedField(p, f) ==
    \E ci \in 1..Len(cpp_messages) :
        /\ IsCounterpart(ci, p)
        /\ \A g \in 1..Len(cpp_messages[ci].fields) :
              cpp_messages[ci].fields[g].normalized_name # p.fields[f].normalized_name

HasUnmatchedField ==
    \E i \in 1..Len(proto_messages) :
        \E f \in 1..Len(proto_messages[i].fields) :
            UnmatchedField(proto_messages[i], f)

\* C1: every MessageMatch has one mapping per proto field, the i-th mapping
\* holds the i-th proto field and a C++ field of the paired struct; an error
\* comes from an unmatched proto field only, never from a C++ field that no
\* proto field pairs with.
C1_FieldCount ==
    /\ \A k \in 1..Len(matches) :
          LET m == matches[k]
              p == proto_messages[m.proto_message]
          IN /\ Len(m.field_mappings) = Len(p.fields)
             /\ \A i \in 1..Len(m.field_mappings) :
                   /\ m.field_mappings[i].proto_field = <<m.proto_message, i>>
                   /\ Len(m.field_mappings[i].cpp_field) = 2
                   /\ m.field_mappings[i].cpp_field[1] = m.cpp_message
                   /\ m.field_mappings[i].cpp_field[2] \in
                          1..Len(cpp_messages[m.cpp_message].fields)
    /\ mpc = "raised" => UnmatchedField(proto_messages[mi], fi)

\* a returned match of two mappings whose C++ struct has a field that no
\* mapping uses
C1_Witness ==
    /\ mpc = "returned"
    /\ \E k \in 1..Len(Val(result)) :
          LET m == Val(result)[k]
          IN /\ Len(m.field_mappings) = 2
             /\ \E g \in 1..Len(cpp_messages[m.cpp_message].fields) :
                   \A i \in 1..Len(m.field_mappings) :
                       m.field_mappings[i].cpp_field # <<m.cpp_message, g>>

\* C2: when a proto message with a C++ counterpart has a field whose normalized
\* name is not among the counterpart's fields, match_messages returns no list:
\* it runs on until it raises MatchError.
C2_FailFast ==
    HasUnmatchedField =>
        /\ result = None
        /\ mpc # "returned"
        /\ mpc # "raised" => ENABLED NextMatch

\* MatchError is raised after an earlier proto message was matched
C2_Witness ==
    /\ mpc = "raised"
    /\ result = None
    /\ Len(matches) >= 1
    /\ mi = 2

\* the positions of the proto messages that have a C++ counterpart, in order
RECURSIVE CounterpartPositions(_)
CounterpartPositions(n) ==
    IF n = 0 THEN <<>>
    ELSE IF HasCounterpart(proto_messages[n])
         THEN Append(CounterpartPositions(n - 1), n)
         ELSE CounterpartPositions(n - 1)

\* C3: a successful match_messages returns one MessageMatch per proto message
\* that has a C++ counterpart, in input order, each with that counterpart; a
\* proto message without counterpart gives no entry and no error.
C3_ResultOrder ==
    /\ mpc = "returned" =>
          /\ [k \in 1..Len(Val(result)) |-> Val(result)[k].proto_message]
                = CounterpartPositions(Len(proto_messages))
          /\ \A k \in 1..Len(Val(result)) :
                IsCounterpart(Val(result)[k].cpp_message,
                              proto_messages[Val(result)[k].proto_message])
    /\ mpc = "raised" => HasCounterpart(proto_messages[mi])

\* the first proto message has no counterpart, the second one is matched
C3_Witness ==
    /\ mpc = "returned"
    /\ Len(proto_messages) = 2
    /\ ~HasCounterpart(proto_messages[1])
    /\ Len(Val(result)) = 1
    /\ Val(result)[1].proto_message = 2

\* C4: after a successful match_messages every mapping of a repeated proto
\* field has a repeated C++ field.
C4_RepeatedForced ==
    mpc = "returned" =>
        \A k \in 1..Len(Val(result)) :
            \A i \in 1..Len(Val(result)[k].field_mappings) :
                LET fm == Val(result)[k].field_mappings[i]
                IN ProtoFieldOf(fm.proto_field).is_repeated
                       => CppFieldOf(fm.cpp_field).is_repeated

\* the C++ field named `name` of the struct named `struct` was declared
\* non-repeated
DeclaredNotRepeated(struct, name) ==
    \E s \in 1..Len(CppStructPool) :
        /\ CppStructPool[s].original_name = struct
        /\ \E j \in 1..Len(CppStructPool[s].fields) :
              /\ CppStructPool[s].fields[j].f.original_name = name
              /\ ~CppStructPool[s].fields[j].f.is_repeated

\* a repeated proto field is paired with a C++ field declared non-repeated
C4_Witness ==
    /\ mpc = "returned"
    /\ \E k \in 1..Len(Val(result)) :
          \E i \in 1..Len(Val(result)[k].field_mappings) :
              LET fm == Val(result)[k].field_mappings[i]
              IN /\ ProtoFieldOf(fm.proto_field).is_repeated
                 /\ CppFieldOf(fm.cpp_field).is_repeated
                 /\ DeclaredNotRepeated(
                        cpp_messages[fm.cpp_field[1]].original_name,
                        CppFieldOf(fm.cpp_field).original_name)

\* the struct index entry of a normalized name, stated on the list
LastWithNorm(norm) ==
    IF \E k \in 1..Len(cpp_messages) : cpp_messages[k].normalized_name = norm
    THEN Some(CHOOSE k \in 1..Len(cpp_messages) :
                 /\ cpp_messages[k].normalized_name = norm
                 /\ \A l \in (k + 1)..Len(cpp_messages) :
                       cpp_messages[l].normalized_name # norm)
    ELSE None

NestedKey(pf) ==
    IF pf.nested_type # None THEN Val(pf.nested_type).normalized_name
    ELSE normalize(pf.type_name)

\* C5: a pairing step looks the nested C++ struct up by the proto field's
\* nested_type.normalized_name when nested_type is set and by
\* normalize(type_name) otherwise; when the proto field is nested and a struct
\* is found, the C++ field gets is_nested and that struct as nested_type, and
\* in every other case both are left as they were.
C5_NestedPairing ==
    [][ (mpc = "fields" /\ fi' = fi + 1) =>
          LET fm == mappings'[Len(mappings')]
              pf == ProtoFieldOf(fm.proto_field)
              before == cpp_messages[fm.cpp_field[1]].fields[fm.cpp_field[2]]
              after == cpp_messages'[fm.cpp_field[1]].fields[fm.cpp_field[2]]
          IN /\ fm.proto_field = <<mi, fi>>
             /\ IF pf.is_nested /\ LastWithNorm(NestedKey(pf)) # None
                THEN /\ after.is_nested
                     /\ after.nested_type = LastWithNorm(NestedKey(pf))
                ELSE /\ after.is_nested = before.is_nested
                     /\ after.nested_type = before.nested_type ]_vars

\* one match holds a field linked through nested_type and a field linked
\* through its type name, to different structs, and a nested proto field whose
\* struct is not found has left an earlier link of the C++ field in place
C5_Witness ==
    /\ mpc = "returned"
    /\ \E k \in 1..Len(Val(result)) :
          \E i, j \in 1..Len(Val(result)[k].field_mappings) :
              LET fi1 == Val(result)[k].field_mappings[i]
                  fi2 == Val(result)[k].field_mappings[j]
              IN /\ ProtoFieldOf(fi1.proto_field).nested_type = None
                 /\ ProtoFieldOf(fi1.proto_field).is_nested
                 /\ ProtoFieldOf(fi2.proto_field).nested_type # None
                 /\ CppFieldOf(fi1.cpp_field).is_nested
                 /\ CppFieldOf(fi2.cpp_field).is_nested
                 /\ CppFieldOf(fi1.cpp_field).nested_type
                       # CppFieldOf(fi2.cpp_field).nested_type
    /\ \E k \in 1..Len(Val(result)) :
          \E i \in 1..Len(Val(result)[k].field_mappings) :
              LET fm == Val(result)[k].field_mappings[i]
              IN /\ ProtoFieldOf(fm.proto_field).is_nested
                 /\ LastWithNorm(NestedKey(ProtoFieldOf(fm.proto_field))) = None
                 /\ CppFieldOf(fm.cpp_field).is_nested
                 /\ CppFieldOf(fm.cpp_field).nested_type # None

\* ------------------------------------------------------------------------
\* models.normalize applied to names that differ in case and underscores
\* ------------------------------------------------------------------------
NormAlphabet == {"a", "B", "_", "1"}

NormNames == UNION { [1..k -> NormAlphabet] : k \in 0..MaxNameLen }

\* the other case of an ASCII letter
swap_case(c) ==
    IF IsLower(c) THEN UpperCase[CHOOSE i \in 1..26 : LowerCase[i] = c]
    ELSE IF IsUpper(c) THEN LowerCase[CHOOSE i \in 1..26 : UpperCase[i] = c]
    ELSE c

InitNorm ==
    /\ IdleMatch /\ IdleTok /\ IdleCpp /\ IdleAlias /\ IdleProto /\ IdleFile /\ IdleRun /\ IdleRep /\ IdleParse
    /\ n_name \in NormNames
    /\ n_variant = n_name
    /\ n_out = None
    /\ npc = "edit"

\* an underscore is put somewhere into the variant
InsertUnderscore ==
    /\ npc = "edit"
    /\ Len(n_variant) <= MaxNameLen
    /\ \E i \in 0..Len(n_variant) :
          n_variant' = SubSeq(n_variant, 1, i) \o <<"_">>
                          \o SubSeq(n_variant, i + 1, Len(n_variant))
    /\ UNCHANGED <<n_name, n_out, npc>>

\* an underscore is taken out of the variant
DeleteUnderscore ==
    /\ npc = "edit"
    /\ \E i \in 1..Len(n_variant) :
          /\ n_variant[i] = "_"
          /\ n_variant' = SubSeq(n_variant, 1, i - 1)
                             \o SubSeq(n_variant, i + 1, Len(n_variant))
    /\ UNCHANGED <<n_name, n_out, npc>>

\* one ASCII letter of the variant changes case
SwapCase ==
    /\ npc = "edit"
    /\ \E i \in 1..Len(n_variant) :
          /\ IsAlpha(n_variant[i])
          /\ n_variant' = [n_variant EXCEPT ![i] = swap_case(@)]
    /\ UNCHANGED <<n_name, n_out, npc>>

\* normalize is called on both names, and on its own result
Normalize ==
    /\ npc = "edit"
    /\ n_out' = Some([name |-> normalize(n_name),
                      variant |-> normalize(n_variant),
                      twice |-> normalize(normalize(n_variant))])
    /\ npc' = "done"
    /\ UNCHANGED <<n_name, n_variant>>

NextNorm ==
    \/ InsertUnderscore /\ UNCHANGED notNormVars
    \/ DeleteUnderscore /\ UNCHANGED notNormVars
    \/ SwapCase /\ UNCHANGED notNormVars
    \/ Normalize /\ UNCHANGED notNormVars

SpecNorm == InitNorm /\ [][NextNorm]_vars

\* C6: normalize(normalize(N)) = normalize(N), and two names that differ only
\* in ASCII letter case and in the placement of underscores have the same
\* normalized form.
C6_NormalizeIdempotentEquivalent ==
    npc = "done" =>
        /\ Val(n_out).twice = Val(n_out).variant
        /\ Val(n_out).variant = Val(n_out).name

\* a_B and A__b (different case, different underscores) both give AB
C6_Witness ==
    /\ npc = "done"
    /\ n_name = <<"a", "_", "B">>
    /\ n_variant = <<"A", "_", "_", "b">>
    /\ Val(n_out).name = <<"A", "B">>
    /\ Val(n_out).twice = <<"A", "B">>

\* ------------------------------------------------------------------------
\* cpp_tokenizer.tokenize_cpp and proto_tokenizer.tokenize_proto
\* ------------------------------------------------------------------------
\* The source texts are built from short pieces, so that comments, string
\* literals, numbers, identifiers and a keyword come up within the bound.
CppPieces ==
    { <<" ">>, <<"\n">>, <<"#">>, <<"/">>, <<"/","*">>, <<"*","/">>, <<"*">>,
      <<":">>, <<"{">>, <<"1">>, <<"c","h","a","r">> }

ProtoPieces ==
    { <<" ">>, <<"\n">>, <<"/">>, <<"/","*">>, <<"*","/">>, <<"=">>, <<"\"">>,
      <<"\\">>, <<"1">>, <<"e","n","u","m">> }

RECURSIVE Flatten(_)
Flatten(ss) == IF ss = <<>> THEN <<>> ELSE Head(ss) \o Flatten(Tail(ss))

Texts(pieces) ==
    { Flatten(ps) : ps \in UNION { [1..k -> pieces] : k \in 0..MaxTextLen } }

\* len(text) and text[k], k counted from 0
n == Len(text)
ch(k) == text[k + 1]
\* text[a:b]; Python clips b to len(text)
slice(a, b) == SubSeq(text, a + 1, IF b > n THEN n ELSE b)

Token(type, value, l, c) == [type |-> type, value |-> value, line |-> l, col |-> c]

\* cpp_tokenizer._KEYWORDS.get(word, CppTokenType.IDENT)
cpp_keyword(word) ==
    IF word = <<"s","t","r","u","c","t">> THEN "STRUCT"
    ELSE IF word = <<"t","y","p","e","d","e","f">> THEN "TYPEDEF"
    ELSE IF word = <<"c","h","a","r">> THEN "CHAR"
    ELSE "IDENT"

\* proto_tokenizer._KEYWORDS.get(word, ProtoTokenType.IDENT)
proto_keyword(word) ==
    IF word = <<"m","e","s","s","a","g","e">> THEN "MESSAGE"
    ELSE IF word = <<"r","e","p","e","a","t","e","d">> THEN "REPEATED"
    ELSE IF word = <<"s","y","n","t","a","x">> THEN "SYNTAX"
    ELSE IF word = <<"p","a","c","k","a","g","e">> THEN "PACKAGE"
    ELSE IF word = <<"o","p","t","i","o","n">> THEN "OPTION"
    ELSE IF word = <<"r","e","s","e","r","v","e","d">> THEN "RESERVED"
    ELSE IF word = <<"i","m","p","o","r","t">> THEN "IMPORT"
    ELSE IF word = <<"e","n","u","m">> THEN "ENUM"
    ELSE IF word = <<"o","n","e","o","f">> THEN "ONEOF"
    ELSE "IDENT"

\* the single-character tokens of tokenize_cpp
cpp_single(c) ==
    CASE c = "{" -> "LBRACE" [] c = "}" -> "RBRACE" [] c = ";" -> "SEMICOLON"
      [] c = "<" -> "LANGLE" [] c = ">" -> "RANGLE"
      [] c = "[" -> "LBRACKET" [] c = "]" -> "RBRACKET"
      [] OTHER -> "NONE"

\* the single-character tokens of tokenize_proto
proto_single(c) ==
    CASE c = "{" -> "LBRACE" [] c = "}" -> "RBRACE" [] c = ";" -> "SEMICOLON"
      [] c = "=" -> "EQUALS"
      [] OTHER -> "NONE"

\* mutant of skip_line: one character is skipped, not the line
skip_line_one_character(k) == k + 1

\* `while i < n and text[i] != "\n": i += 1`
RECURSIVE skip_line(_)
skip_line(k) == IF k < n /\ ch(k) # "\n" THEN skip_line(k + 1) ELSE k

\* `while i < n and text[i].isdigit(): i += 1`
RECURSIVE scan_digits(_)
scan_digits(k) == IF k < n /\ IsDigit(ch(k)) THEN scan_digits(k + 1) ELSE k

\* `while i < n and (text[i].isalnum() or text[i] == "_"): i += 1`
RECURSIVE scan_word(_)
scan_word(k) ==
    IF k < n /\ (IsAlnum(ch(k)) \/ ch(k) = "_") THEN scan_word(k + 1) ELSE k

\* the inner loop of the multi-line comment branch; both tokenizers move i,
\* line and col the same way
RECURSIVE scan_block_comment(_, _, _)
scan_block_comment(k, l, c) ==
    IF k < n
    THEN IF ch(k) = "\n" THEN scan_block_comment(k + 1, l + 1, 1)
         ELSE IF ch(k) = "*" /\ k + 1 < n /\ ch(k + 1) = "/"
              THEN [i |-> k + 2, line |-> l, col |-> c + 2]
              ELSE scan_block_comment(k + 1, l, c + 1)
    ELSE [i |-> k, line |-> l, col |-> c]

\* the inner loop of the string literal branch of tokenize_proto; a backslash
\* takes the next character with it
RECURSIVE scan_string(_, _)
scan_string(k, c) ==
    IF k < n /\ ch(k) # "\""
    THEN IF ch(k) = "\\" THEN scan_string(k + 2, c + 2)
         ELSE scan_string(k + 1, c + 1)
    ELSE [i |-> k, col |-> c]

InitTok ==
    /\ IdleMatch /\ IdleNorm /\ IdleCpp /\ IdleAlias /\ IdleProto /\ IdleFile /\ IdleRun /\ IdleRep /\ IdleParse
    /\ t_lang \in {"cpp", "proto"}
    /\ text \in (IF t_lang = "cpp" THEN Texts(CppPieces) ELSE Texts(ProtoPieces))
    /\ t_i = 0
    /\ line = 1
    /\ col = 1
    /\ tokens = <<>>
    /\ tpc = "scan"

Scanning(lang) == tpc = "scan" /\ t_lang = lang /\ t_i < n

\* `if ch in (" ", "\t", "\r")`
Whitespace ==
    /\ tpc = "scan" /\ t_i < n
    /\ ch(t_i) \in {" ", "\t", "\r"}
    /\ t_i' = t_i + 1
    /\ col' = col + 1
    /\ UNCHANGED <<t_lang, text, line, tokens, tpc>>

\* `if ch == "\n"`
Newline ==
    /\ tpc = "scan" /\ t_i < n
    /\ ch(t_i) = "\n"
    /\ t_i' = t_i + 1
    /\ line' = line + 1
    /\ col' = 1
    /\ UNCHANGED <<t_lang, text, tokens, tpc>>

NotBlank == ch(t_i) \notin {" ", "\t", "\r", "\n"}

\* tokenize_cpp: `if ch == "#"`, the preprocessor directive
CppPreprocessor ==
    /\ Scanning("cpp") /\ NotBlank
    /\ ch(t_i) = "#"
    /\ t_i' = skip_line(t_i)
    /\ UNCHANGED <<t_lang, text, line, col, tokens, tpc>>

IsLineComment == ch(t_i) = "/" /\ t_i + 1 < n /\ ch(t_i + 1) = "/"
IsBlockComment == ch(t_i) = "/" /\ t_i + 1 < n /\ ch(t_i + 1) = "*"

\* the single-line comment
LineComment ==
    /\ tpc = "scan" /\ t_i < n /\ NotBlank
    /\ IsLineComment
    /\ t_i' = skip_line(t_i)
    /\ UNCHANGED <<t_lang, text, line, col, tokens, tpc>>

\* the multi-line comment
BlockComment ==
    /\ tpc = "scan" /\ t_i < n /\ NotBlank
    /\ IsBlockComment
    /\ LET e == scan_block_comment(t_i + 2, line, col + 2)
       IN /\ t_i' = e.i
          /\ line' = e.line
          /\ col' = e.col
    /\ UNCHANGED <<t_lang, text, tokens, tpc>>

CppPlain ==
    /\ Scanning("cpp") /\ NotBlank
    /\ ch(t_i) # "#" /\ ~IsLineComment /\ ~IsBlockComment

\* tokenize_cpp: `::`
CppColonColon ==
    /\ CppPlain
    /\ ch(t_i) = ":" /\ t_i + 1 < n /\ ch(t_i + 1) = ":"
    /\ tokens' = Append(tokens, Token("COLONCOLON", <<":", ":">>, line, col))
    /\ t_i' = t_i + 2
    /\ col' = col + 2
    /\ UNCHANGED <<t_lang, text, line, tpc>>

\* tokenize_cpp: a single colon
CppColon ==
    /\ CppPlain
    /\ ch(t_i) = ":" /\ ~(t_i + 1 < n /\ ch(t_i + 1) = ":")
    /\ tokens' = Append(tokens, Token("COLON", <<":">>, line, col))
    /\ t_i' = t_i + 1
    /\ col' = col + 1
    /\ UNCHANGED <<t_lang, text, line, tpc>>

\* tokenize_cpp: { } ; < > [ ]
CppSingleChar ==
    /\ CppPlain
    /\ cpp_single(ch(t_i)) # "NONE"
    /\ tokens' = Append(tokens, Token(cpp_single(ch(t_i)), <<ch(t_i)>>, line, col))
    /\ t_i' = t_i + 1
    /\ col' = col + 1
    /\ UNCHANGED <<t_lang, text, line, tpc>>

ProtoPlain ==
    /\ Scanning("proto") /\ NotBlank
    /\ ~IsLineComment /\ ~IsBlockComment

\* tokenize_proto: { } ; =
ProtoSingleChar ==
    /\ ProtoPlain
    /\ proto_single(ch(t_i)) # "NONE"
    /\ tokens' = Append(tokens, Token(proto_single(ch(t_i)), <<ch(t_i)>>, line, col))
    /\ t_i' = t_i + 1
    /\ col' = col + 1
    /\ UNCHANGED <<t_lang, text, line, tpc>>

\* tokenize_proto: the string literal
ProtoStringLit ==
    /\ ProtoPlain
    /\ ch(t_i) = "\""
    /\ LET e == scan_string(t_i + 1, col + 1)
          closed == e.i < n
       IN /\ tokens' = Append(tokens,
                              Token("STRING_LIT", slice(t_i + 1, e.i), line, col))
          /\ t_i' = IF closed THEN e.i + 1 ELSE e.i
          /\ col' = IF closed THEN e.col + 1 ELSE e.col
    /\ UNCHANGED <<t_lang, text, line, tpc>>

\* neither tokenizer's punctuation, comment or literal start
Plain ==
    /\ tpc = "scan" /\ t_i < n /\ NotBlank
    /\ ~IsLineComment /\ ~IsBlockComment
    /\ t_lang = "cpp" => ch(t_i) \notin {"#", ":"} /\ cpp_single(ch(t_i)) = "NONE"
    /\ t_lang = "proto" => ch(t_i) # "\"" /\ proto_single(ch(t_i)) = "NONE"

\* `if ch.isdigit()`
Number ==
    /\ Plain
    /\ IsDigit(ch(t_i))
    /\ LET e == scan_digits(t_i)
       IN /\ tokens' = Append(tokens, Token("NUMBER", slice(t_i, e), line, col))
          /\ t_i' = e
          /\ col' = col + (e - t_i)
    /\ UNCHANGED <<t_lang, text, line, tpc>>

\* `if ch.isalpha() or ch == "_"`
Identifier ==
    /\ Plain
    /\ ~IsDigit(ch(t_i))
    /\ IsAlpha(ch(t_i)) \/ ch(t_i) = "_"
    /\ LET e == scan_word(t_i)
          word == slice(t_i, e)
       IN /\ tokens' = Append(tokens,
                Token(IF t_lang = "cpp" THEN cpp_keyword(word) ELSE proto_keyword(word),
                      word, line, col))
          /\ t_i' = e
          /\ col' = col + (e - t_i)
    /\ UNCHANGED <<t_lang, text, line, tpc>>

\* mutant of skipped_tokens: an unrecognized character becomes a token
skipped_tokens_unknown == Append(tokens, Token("UNKNOWN", <<ch(t_i)>>, line, col))

\* mutant of eof_tokens: an empty text gives an empty token list
eof_tokens_unless_empty ==
    IF n = 0 THEN tokens ELSE Append(tokens, Token("EOF", <<>>, line, col))

\* tokens.append(Token(EOF, "", line, col))
eof_tokens == Append(tokens, Token("EOF", <<>>, line, col))

\* the token list after a character that no branch recognizes
skipped_tokens == tokens

\* "Skip any other character"
OtherChar ==
    /\ Plain
    /\ ~IsDigit(ch(t_i)) /\ ~IsAlpha(ch(t_i)) /\ ch(t_i) # "_"
    /\ tokens' = skipped_tokens
    /\ t_i' = t_i + 1
    /\ col' = col + 1
    /\ UNCHANGED <<t_lang, text, line, tpc>>

\* the loop is left: tokens.append(Token(EOF, "", line, col)); return tokens
ReturnTokens ==
    /\ tpc = "scan"
    /\ ~(t_i < n)
    /\ tokens' = eof_tokens
    /\ tpc' = "returned"
    /\ UNCHANGED <<t_lang, text, t_i, line, col>>

NextTok ==
    \/ Whitespace /\ UNCHANGED notTokVars
    \/ Newline /\ UNCHANGED notTokVars
    \/ CppPreprocessor /\ UNCHANGED notTokVars
    \/ LineComment /\ UNCHANGED notTokVars
    \/ BlockComment /\ UNCHANGED notTokVars
    \/ CppColonColon /\ UNCHANGED notTokVars
    \/ CppColon /\ UNCHANGED notTokVars
    \/ CppSingleChar /\ UNCHANGED notTokVars
    \/ ProtoSingleChar /\ UNCHANGED notTokVars
    \/ ProtoStringLit /\ UNCHANGED notTokVars
    \/ Number /\ UNCHANGED notTokVars
    \/ Identifier /\ UNCHANGED notTokVars
    \/ OtherChar /\ UNCHANGED notTokVars
    \/ ReturnTokens /\ UNCHANGED notTokVars

SpecTok == InitTok /\ [][NextTok]_vars

\* the characters a tokenizer turns into tokens outside string literals
Recognized(lang, c) ==
    \/ IsAlnum(c) \/ c = "_"
    \/ lang = "cpp" /\ (c = ":" \/ cpp_single(c) # "NONE")
    \/ lang = "proto" /\ proto_single(c) # "NONE"

\* C7: for every text both tokenizers run to their return (some branch applies
\* to every character, the position stays inside the text or just behind it)
\* and return a non-empty token list that ends with EOF and holds no other
\* EOF; a character that no branch recognizes gives no token.
C7_TokenizeTotal ==
    /\ tpc = "scan" => ENABLED NextTok
    /\ tpc # "idle" => t_i >= 0 /\ t_i <= n + 1
    /\ tpc = "scan" => \A k \in 1..Len(tokens) : tokens[k].type # "EOF"
    /\ tpc = "returned" =>
          /\ tokens # <<>>
          /\ tokens[Len(tokens)].type = "EOF"
          /\ \A k \in 1..(Len(tokens) - 1) : tokens[k].type # "EOF"
    /\ \A k \in 1..Len(tokens) :
          tokens[k].type \notin {"EOF", "STRING_LIT"} =>
              /\ tokens[k].value # <<>>
              /\ \A j \in 1..Len(tokens[k].value) :
                    Recognized(t_lang, tokens[k].value[j])

\* tokenize_proto on `\"1`: the backslash is skipped, the string literal is
\* never closed, the result is the literal and EOF
C7_Witness ==
    /\ tpc = "returned"
    /\ t_lang = "proto"
    /\ text = <<"\\", "\"", "1">>
    /\ Len(tokens) = 2
    /\ tokens[1].type = "STRING_LIT"
    /\ tokens[2].type = "EOF"

\* ------------------------------------------------------------------------
\* cpp_ast_parser.CppParser: the parser reads the token list `tokens`.
\* A local variable of a method that is read more than once is bound as
\*     CHOOSE v \in {e(x) : x \in {a}} : TRUE
\* which is e(a), with the value a computed once.
\* ------------------------------------------------------------------------
\* identifiers the grammar knows by value
w_std == <<"s","t","d">>
w_vector == <<"v","e","c","t","o","r">>
w_list == <<"l","i","s","t">>
w_public == <<"p","u","b","l","i","c">>
w_private == <<"p","r","i","v","a","t","e">>
w_protected == <<"p","r","o","t","e","c","t","e","d">>
w_char == <<"c","h","a","r">>
ACCESS_SPECIFIERS == {w_public, w_private, w_protected}
VECTOR_TYPES == {w_vector, w_list}

\* cpp_ast.CppFieldDecl
CppFieldDecl(type_name, field_name, is_vector, is_char_array, is_array) ==
    [node |-> "CppFieldDecl", type_name |-> type_name, field_name |-> field_name,
     is_vector |-> is_vector, is_char_array |-> is_char_array, is_array |-> is_array]

\* cpp_ast.CppAnonymousStructField
CppAnonymousStructField(field_name, fields) ==
    [node |-> "CppAnonymousStructField", field_name |-> field_name, fields |-> fields]

\* cpp_ast.CppStruct; name and typedef_name are optional
CppStruct(name, is_anonymous_typedef, typedef_name, fields, nested_structs) ==
    [node |-> "CppStruct", name |-> name,
     is_anonymous_typedef |-> is_anonymous_typedef, typedef_name |-> typedef_name,
     fields |-> fields, nested_structs |-> nested_structs]

\* cpp_ast.CppTypeAlias
CppTypeAlias(new_name, existing_type, is_struct_alias) ==
    [node |-> "CppTypeAlias", new_name |-> new_name,
     existing_type |-> existing_type, is_struct_alias |-> is_struct_alias]

\* self._tokens[self._pos], the position counted from 0
peek(p) == tokens[p + 1]

\* CppParser._peek_at
peek_at(p, offset) ==
    IF p + offset < Len(tokens) THEN tokens[p + offset + 1] ELSE tokens[Len(tokens)]

\* CppParser._at_end
at_end(p) == tokens[p + 1].type = "EOF"

\* CppParser._advance: the position after the call
advance(p) == IF tokens[p + 1].type # "EOF" THEN p + 1 ELSE p

\* a raised CppParseError, as the result of any production
Raised(p) == [err |-> TRUE, pos |-> p]

\* CppParser._expect: raises unless the token has the expected type
expect(p, expected) ==
    IF tokens[p + 1].type # expected THEN Raised(p)
    ELSE [err |-> FALSE, pos |-> advance(p), value |-> tokens[p + 1].value]

\* a second _expect after a first: the first exception leaves the method
then_expect(r, expected) == IF r.err THEN Raised(r.pos) ELSE expect(r.pos, expected)

\* CppParser._consume_if: the position after the call
consume_if(p, expected) == IF tokens[p + 1].type = expected THEN advance(p) ELSE p

\* CppParser._skip_to_semicolon: the position after the call
RECURSIVE skip_to_semicolon(_)
skip_to_semicolon(p) ==
    IF at_end(p) THEN p
    ELSE IF tokens[p + 1].type = "SEMICOLON" THEN p + 1
         ELSE skip_to_semicolon(p + 1)

\* the loop of CppParser._skip_to_matching_brace
RECURSIVE skip_braces(_, _)
skip_braces(p, depth) ==
    IF ~at_end(p) /\ depth > 0
    THEN skip_braces(p + 1,
                     IF tokens[p + 1].type = "LBRACE" THEN depth + 1
                     ELSE IF tokens[p + 1].type = "RBRACE" THEN depth - 1
                     ELSE depth)
    ELSE p

\* CppParser._skip_to_matching_brace: the position after the call
skip_to_matching_brace(p) ==
    IF tokens[p + 1].type # "LBRACE" THEN p ELSE skip_braces(p + 1, 1)

\* the test for a `std ::` prefix; both tokens are then consumed
IsStdPrefix(p) ==
    /\ tokens[p + 1].type = "IDENT"
    /\ tokens[p + 1].value = w_std
    /\ peek_at(p, 1).type = "COLONCOLON"

\* CppParser._parse_inner_type
parse_inner_type(p) == expect(IF IsStdPrefix(p) THEN p + 2 ELSE p, "IDENT")

\* CppParser._parse_simple_type_ref
parse_simple_type_ref(p) ==
    IF IsStdPrefix(p) THEN expect(p + 2, "IDENT")
    ELSE IF tokens[p + 1].type = "CHAR"
         THEN [err |-> FALSE, pos |-> p + 1, value |-> tokens[p + 1].value]
         ELSE expect(p, "IDENT")

\* the result None of _try_parse_type_spec, the parser left at p
NoType(p) == [err |-> FALSE, pos |-> p, none |-> TRUE]

\* _try_parse_type_spec with `<` the token at p: the inner type and `>`
vector_type_spec(type_name, p) ==
    CHOOSE v \in {
        IF inner.err THEN Raised(inner.pos)
        ELSE CHOOSE v1 \in {
                 IF close.err THEN Raised(close.pos)
                 ELSE [err |-> FALSE, pos |-> close.pos, none |-> FALSE,
                       type_name |-> type_name, is_vector |-> TRUE,
                       inner_type |-> inner.value]
               : close \in {expect(inner.pos, "RANGLE")}} : TRUE
      : inner \in {parse_inner_type(p + 1)}} : TRUE

\* CppParser._try_parse_type_spec; `none` stands for the result None
try_parse_type_spec(p) ==
    IF tokens[p + 1].type # "IDENT" THEN NoType(p)
    ELSE CHOOSE v \in {
            IF tokens[p1 + 1].type # "IDENT" THEN NoType(p1)
            ELSE IF /\ tokens[p1 + 1].value \in VECTOR_TYPES
                    /\ peek(p1 + 1).type = "LANGLE"
                 THEN vector_type_spec(tokens[p1 + 1].value, p1 + 1)
                 ELSE [err |-> FALSE, pos |-> p1 + 1, none |-> FALSE,
                       type_name |-> tokens[p1 + 1].value, is_vector |-> FALSE,
                       inner_type |-> <<>>]
          : p1 \in {IF IsStdPrefix(p) THEN p + 2 ELSE p}} : TRUE

\* the results of _try_parse_field_decl: None at position p, or a field
NoField(p) == [err |-> FALSE, pos |-> p, field |-> None]
AField(p, f) == [err |-> FALSE, pos |-> p, field |-> Some(f)]

\* `[` is the token at p: the optional size, `]` and `;`, then the field
array_tail(p, decl) ==
    CHOOSE v \in {
        IF semi.err THEN Raised(semi.pos) ELSE AField(semi.pos, decl)
      : semi \in {then_expect(expect(consume_if(p + 1, "NUMBER"), "RBRACKET"),
                              "SEMICOLON")}} : TRUE

\* the CppFieldDecl of `char name[SIZE];`
char_field_decl(field_name) ==
    CppFieldDecl(w_char, field_name, FALSE, TRUE, FALSE)

\* _try_parse_field_decl, the case of a CHAR token at `saved`
try_parse_char_field(saved) ==
    IF peek(saved + 1).type # "IDENT" THEN NoField(saved)
    ELSE IF peek(saved + 2).type = "LBRACKET"
         THEN array_tail(saved + 2, char_field_decl(peek(saved + 1).value))
    ELSE IF peek(saved + 2).type = "SEMICOLON"
         THEN AField(saved + 3,
                     CppFieldDecl(w_char, peek(saved + 1).value, FALSE, FALSE, FALSE))
    ELSE NoField(saved)

\* the field of a vector type: `;` after the name, the token at p
vector_field(p, decl) ==
    CHOOSE v \in {
        IF semi.err THEN Raised(semi.pos) ELSE AField(semi.pos, decl)
      : semi \in {expect(p, "SEMICOLON")}} : TRUE

\* _try_parse_field_decl after the type specifier, which ended at p1
try_parse_field_name(saved, type_result, p1) ==
    IF tokens[p1 + 1].type # "IDENT" THEN NoField(saved)
    ELSE IF type_result.is_vector
         THEN vector_field(p1 + 1,
                           CppFieldDecl(type_result.inner_type, tokens[p1 + 1].value,
                                        TRUE, FALSE, FALSE))
    ELSE IF peek(p1 + 1).type = "LBRACKET"
         THEN array_tail(p1 + 1,
                         CppFieldDecl(type_result.type_name, tokens[p1 + 1].value,
                                      FALSE, FALSE, TRUE))
    ELSE IF peek(p1 + 1).type = "SEMICOLON"
         THEN AField(p1 + 2,
                     CppFieldDecl(type_result.type_name, tokens[p1 + 1].value,
                                  FALSE, FALSE, FALSE))
    ELSE NoField(saved)

\* CppParser._try_parse_field_decl
try_parse_field_decl(saved) ==
    IF tokens[saved + 1].type = "CHAR" THEN try_parse_char_field(saved)
    ELSE CHOOSE v \in {
            IF type_result.err THEN Raised(type_result.pos)
            ELSE IF type_result.none THEN NoField(type_result.pos)
            ELSE try_parse_field_name(saved, type_result, type_result.pos)
          : type_result \in {try_parse_type_spec(saved)}} : TRUE

\* a struct body result: the lists `fields` and `nested_structs`
Body(p, fields, nested_structs) ==
    [err |-> FALSE, pos |-> p, fields |-> fields, nested_structs |-> nested_structs]

RECURSIVE parse_struct_body_loop(_, _, _)
RECURSIVE parse_anonymous_struct_field(_)
RECURSIVE parse_named_nested_struct(_)

\* CppParser._parse_struct_body: its while loop, p the current position
parse_struct_body_loop(p, fields, nested_structs) ==
    IF at_end(p) \/ tokens[p + 1].type = "RBRACE" THEN Body(p, fields, nested_structs)
    ELSE IF tokens[p + 1].type = "STRUCT"
    THEN IF peek_at(p, 1).type = "LBRACE"
         THEN CHOOSE v \in {
                  IF anon.err THEN Raised(anon.pos)
                  ELSE parse_struct_body_loop(anon.pos, Append(fields, anon.field),
                                              nested_structs)
                : anon \in {parse_anonymous_struct_field(p)}} : TRUE
         ELSE IF peek_at(p, 1).type = "IDENT"
         THEN CHOOSE v \in {
                  IF named.err THEN Raised(named.pos)
                  ELSE parse_struct_body_loop(named.pos, fields,
                                              Append(nested_structs, named.struct))
                : named \in {parse_named_nested_struct(p)}} : TRUE
         ELSE parse_struct_body_loop(p + 1, fields, nested_structs)
    ELSE IF tokens[p + 1].type = "TYPEDEF"
    THEN parse_struct_body_loop(skip_to_semicolon(p), fields, nested_structs)
    ELSE IF /\ tokens[p + 1].type = "IDENT"
            /\ tokens[p + 1].value \in ACCESS_SPECIFIERS
            /\ peek_at(p, 1).type = "COLON"
    THEN parse_struct_body_loop(p + 2, fields, nested_structs)
    ELSE CHOOSE v \in {
             IF decl.err THEN Raised(decl.pos)
             ELSE IF decl.field # None
                  THEN parse_struct_body_loop(decl.pos,
                                              Append(fields, Val(decl.field)),
                                              nested_structs)
                  ELSE parse_struct_body_loop(advance(decl.pos), fields,
                                              nested_structs)
           : decl \in {try_parse_field_decl(p)}} : TRUE

\* CppParser._parse_struct_body
parse_struct_body(p) == parse_struct_body_loop(p, <<>>, <<>>)

\* `{` is consumed: the body and `}`, then `;` (named is FALSE) or a name
\* and `;` (named is TRUE).  ident is the name, <<>> without one.
braced_body(p, named) ==
    CHOOSE v \in {
        IF body.err THEN Raised(body.pos)
        ELSE CHOOSE v1 \in {
                 IF first.err THEN Raised(first.pos)
                 ELSE IF ~named
                      THEN [err |-> FALSE, pos |-> first.pos, ident |-> <<>>,
                            fields |-> body.fields,
                            nested_structs |-> body.nested_structs]
                 ELSE IF peek(first.pos).type # "SEMICOLON" THEN Raised(first.pos)
                 ELSE [err |-> FALSE, pos |-> first.pos + 1, ident |-> first.value,
                       fields |-> body.fields,
                       nested_structs |-> body.nested_structs]
               : first \in {then_expect(expect(body.pos, "RBRACE"),
                                        IF named THEN "IDENT" ELSE "SEMICOLON")}}
               : TRUE
      : body \in {parse_struct_body(p)}} : TRUE

\* CppParser._parse_anonymous_struct_field; STRUCT and `{` are the tokens at p
parse_anonymous_struct_field(p) ==
    CHOOSE v \in {
        IF b.err THEN Raised(b.pos)
        ELSE [err |-> FALSE, pos |-> b.pos,
              field |-> CppAnonymousStructField(b.ident, b.fields)]
      : b \in {braced_body(p + 2, TRUE)}} : TRUE

\* CppParser._parse_named_nested_struct; STRUCT and a name are the tokens at p
parse_named_nested_struct(p) ==
    IF peek(p + 2).type # "LBRACE"
    THEN [err |-> FALSE, pos |-> skip_to_semicolon(p + 2),
          struct |-> CppStruct(Some(peek(p + 1).value), FALSE, None, <<>>, <<>>)]
    ELSE CHOOSE v \in {
            IF b.err THEN Raised(b.pos)
            ELSE [err |-> FALSE, pos |-> b.pos,
                  struct |-> CppStruct(Some(peek(p + 1).value), FALSE, None,
                                       b.fields, b.nested_structs)]
          : b \in {braced_body(p + 3, FALSE)}} : TRUE

\* the result of a top-level production: a node or None
Node(p, node) == [err |-> FALSE, pos |-> p, node |-> node]

\* `{` is consumed: the body and its closing tokens, then the CppStruct
struct_node(b, name, is_anonymous_typedef) ==
    IF b.err THEN Raised(b.pos)
    ELSE Node(b.pos,
              Some(CppStruct(name, is_anonymous_typedef,
                             IF is_anonymous_typedef THEN Some(b.ident) ELSE None,
                             b.fields, b.nested_structs)))

\* `;` after an alias, the token at p, then the CppTypeAlias
alias_node(p, alias) ==
    IF tokens[p + 1].type # "SEMICOLON" THEN Raised(p) ELSE Node(p + 1, Some(alias))

\* CppParser._parse_top_level_struct; STRUCT is the token at p
parse_top_level_struct(p) ==
    IF peek(p + 1).type # "IDENT"
    THEN Node(consume_if(skip_to_matching_brace(p + 1), "SEMICOLON"), None)
    ELSE IF peek(p + 2).type # "LBRACE"
    THEN Node(skip_to_semicolon(p + 2), None)
    ELSE struct_node(braced_body(p + 3, FALSE), Some(peek(p + 1).value), FALSE)

\* CppParser._parse_typedef, p the position after TYPEDEF STRUCT
parse_typedef_struct(p) ==
    IF tokens[p + 1].type = "LBRACE"
    THEN struct_node(braced_body(p + 1, TRUE), None, TRUE)
    ELSE IF tokens[p + 1].type = "IDENT"
    THEN IF peek(p + 1).type = "LBRACE"
         THEN struct_node(braced_body(p + 2, FALSE), Some(tokens[p + 1].value), FALSE)
         ELSE IF peek(p + 1).type = "IDENT"
         THEN alias_node(p + 2, CppTypeAlias(peek(p + 1).value, tokens[p + 1].value,
                                             TRUE))
         ELSE Node(skip_to_semicolon(p + 1), None)
    ELSE Node(skip_to_semicolon(p), None)

\* CppParser._parse_typedef; TYPEDEF is the token at p
parse_typedef(p) ==
    IF peek(p + 1).type = "STRUCT" THEN parse_typedef_struct(p + 2)
    ELSE CHOOSE v \in {
            IF type_name.err THEN Raised(type_name.pos)
            ELSE IF peek(type_name.pos).type = "IDENT"
                 THEN alias_node(type_name.pos + 1,
                                 CppTypeAlias(peek(type_name.pos).value,
                                              type_name.value, FALSE))
                 ELSE Node(skip_to_semicolon(type_name.pos), None)
          : type_name \in {parse_simple_type_ref(p + 1)}} : TRUE

\* cpp_ast.CppHeader, or the CppParseError that left parse()
CppHeader(type_aliases, structs) ==
    [err |-> FALSE, type_aliases |-> type_aliases, structs |-> structs]
CppParseError == [err |-> TRUE, type_aliases |-> <<>>, structs |-> <<>>]

\* CppParser.parse: its while loop, p the current position
RECURSIVE parse_loop(_, _, _)
parse_loop(p, type_aliases, structs) ==
    IF at_end(p) THEN CppHeader(type_aliases, structs)
    ELSE IF tokens[p + 1].type \in {"TYPEDEF", "STRUCT"}
    THEN CHOOSE v \in {
             IF r.err THEN CppParseError
             ELSE IF r.node = None THEN parse_loop(r.pos, type_aliases, structs)
             ELSE IF Val(r.node).node = "CppTypeAlias"
                  THEN parse_loop(r.pos, Append(type_aliases, Val(r.node)), structs)
                  ELSE parse_loop(r.pos, type_aliases, Append(structs, Val(r.node)))
           : r \in {IF tokens[p + 1].type = "TYPEDEF" THEN parse_typedef(p)
                    ELSE parse_top_level_struct(p)}} : TRUE
    ELSE parse_loop(p + 1, type_aliases, structs)

\* CppParser(tokens).parse()
parse == parse_loop(0, <<>>, <<>>)

\* ------------------------------------------------------------------------
\* cpp_transform: CppHeader -> flat list of Message
\* ------------------------------------------------------------------------
\* the index of the last typedef of `name` in type_aliases
last_alias(type_aliases, name) ==
    CHOOSE k \in DOMAIN type_aliases :
        /\ type_aliases[k].new_name = name
        /\ \A j \in DOMAIN type_aliases : type_aliases[j].new_name = name => j <= k

\* the dict `aliases` of transform_cpp: a later typedef of a name replaces
\* an earlier one
build_aliases(type_aliases) ==
    [name \in {type_aliases[k].new_name : k \in DOMAIN type_aliases} |->
        type_aliases[last_alias(type_aliases, name)].existing_type]

\* the while loop of _resolve_alias
RECURSIVE resolve_alias_loop(_, _, _)
resolve_alias_loop(name, aliases, seen) ==
    IF name \in DOMAIN aliases /\ name \notin seen
    THEN resolve_alias_loop(aliases[name], aliases, seen \cup {name})
    ELSE name

\* cpp_transform._resolve_alias (cpp_parser._resolve_alias is the same code)
resolve_alias(name, aliases) == resolve_alias_loop(name, aliases, {})

\* the Field of _transform_field_decl, type_name the resolved name
field_of_decl(node, type_name) ==
    IF node.is_vector THEN Field(node.field_name, type_name, TRUE, FALSE, None)
    ELSE IF node.is_char_array
         THEN Field(node.field_name, w_char, FALSE, FALSE, None)
    ELSE IF node.is_array THEN Field(node.field_name, type_name, TRUE, FALSE, None)
    ELSE Field(node.field_name, type_name, FALSE, FALSE, None)

\* cpp_transform._transform_field_decl
transform_field_decl(node, aliases) ==
    field_of_decl(node, resolve_alias(node.type_name, aliases))

\* mutant of synthetic_name: the field name is taken as it is
synthetic_name_as_field(field_name) == field_name

\* field_name[0].upper() + field_name[1:]
synthetic_name(field_name) ==
    <<upper_char(Head(field_name))>> \o Tail(field_name)

RECURSIVE transform_fields(_, _, _, _)
RECURSIVE transform_anonymous_struct_field(_, _)

\* the `for f in node.fields` loop of _transform_struct and of
\* _transform_anonymous_struct_field: the Fields and the synthetic Messages
transform_fields(nodes, aliases, fields, anon_messages) ==
    IF nodes = <<>> THEN [fields |-> fields, anon_messages |-> anon_messages]
    ELSE IF Head(nodes).node = "CppAnonymousStructField"
    THEN CHOOSE v \in {
             transform_fields(Tail(nodes), aliases, Append(fields, one.field),
                              anon_messages \o one.synth_msgs)
           : one \in {transform_anonymous_struct_field(Head(nodes), aliases)}} : TRUE
    ELSE transform_fields(Tail(nodes), aliases,
                          Append(fields, transform_field_decl(Head(nodes), aliases)),
                          anon_messages)

\* the Field and the Messages of an anonymous struct field
anonymous_struct_result(field_name, name, inner) ==
    [field |-> Field(field_name, name, FALSE, TRUE, None),
     synth_msgs |-> <<Message(name, inner.fields)>> \o inner.anon_messages]

\* cpp_transform._transform_anonymous_struct_field
transform_anonymous_struct_field(node, aliases) ==
    anonymous_struct_result(node.field_name, synthetic_name(node.field_name),
                            transform_fields(node.fields, aliases, <<>>, <<>>))

\* the indices of the Messages named type_name
nested_hits(all_nested, type_name) ==
    {k \in DOMAIN all_nested : all_nested[k].original_name = type_name}

\* nested_by_name.get(type_name): the last Message of that original_name
nested_by_name(all_nested, type_name) ==
    IF nested_hits(all_nested, type_name) = {} THEN None
    ELSE Some(all_nested[CHOOSE k \in nested_hits(all_nested, type_name) :
                            \A j \in nested_hits(all_nested, type_name) : j <= k])

\* `if f.type_name in nested_by_name: ...`, m the dict entry or None
link_field(f, m) ==
    IF m = None THEN f ELSE [f EXCEPT !.is_nested = TRUE, !.nested_type = m]

\* the linking loop of _transform_struct (and of cpp_parser._parse_structs).
\* A nested_type holds the value of the Message it refers to.
link_nested(fields, all_nested) ==
    [k \in DOMAIN fields |->
        link_field(fields[k], nested_by_name(all_nested, fields[k].type_name))]

\* mutant of struct_messages: the nested entities come before their parent
struct_messages_nested_first(struct_name, fields, all_nested) ==
    all_nested \o <<Message(struct_name, link_nested(fields, all_nested))>>

\* [msg] + all_nested, the fields of msg linked
struct_messages(struct_name, fields, all_nested) ==
    <<Message(struct_name, link_nested(fields, all_nested))>> \o all_nested

RECURSIVE transform_struct(_, _)
RECURSIVE transform_structs(_, _)

\* _transform_struct after the name test
transform_named_struct(struct_name, own, nested_messages) ==
    struct_messages(struct_name, own.fields, nested_messages \o own.anon_messages)

\* cpp_transform._transform_struct
transform_struct(node, aliases) ==
    IF (IF node.is_anonymous_typedef THEN node.typedef_name ELSE node.name) = None
    THEN <<>>
    ELSE transform_named_struct(
             Val(IF node.is_anonymous_typedef THEN node.typedef_name ELSE node.name),
             transform_fields(node.fields, aliases, <<>>, <<>>),
             transform_structs(node.nested_structs, aliases))

\* result.extend(_transform_struct(...)) over a list of structs
transform_structs(nodes, aliases) ==
    IF nodes = <<>> THEN <<>>
    ELSE transform_struct(Head(nodes), aliases) \o transform_structs(Tail(nodes), aliases)

\* cpp_transform.transform_cpp
transform_cpp(header) ==
    transform_structs(header.structs, build_aliases(header.type_aliases))

\* ------------------------------------------------------------------------
\* cpp_parser (the line based parser behind parse_cpp_header): strings and
\* the regular expressions.  A position k is the 1-based index of the next
\* character of the string s; Len(s) + 1 is the end.  A match in progress
\* is a record m: m.pos the position reached, 0 once the pattern has
\* failed, and the groups captured so far.  No pattern of cpp_parser needs
\* to give back characters: each repetition is followed by a character
\* outside its class.
\* ------------------------------------------------------------------------
w_typedef == <<"t","y","p","e","d","e","f">>
w_struct == <<"s","t","r","u","c","t">>
w_std_colons == <<"s","t","d",":",":">>

\* the character classes \s, \w, [\w:] and \d
InClass(cls, c) ==
    CASE cls = "s" -> c \in {" ", "\t", "\n", "\r"}
      [] cls = "w" -> IsAlnum(c) \/ c = "_"
      [] cls = "w:" -> IsAlnum(c) \/ c = "_" \/ c = ":"
      [] cls = "d" -> IsDigit(c)

\* cls* from k (greedy): the position after the run
RECURSIVE span(_, _, _)
span(cls, s, k) ==
    IF k <= Len(s) /\ InClass(cls, s[k]) THEN span(cls, s, k + 1) ELSE k

\* the literal w stands at k
starts_at(s, k, w) ==
    /\ k + Len(w) - 1 <= Len(s)
    /\ SubSeq(s, k, k + Len(w) - 1) = w

\* str.startswith
startswith(s, w) == starts_at(s, 1, w)

\* str.strip()
RECURSIVE rstrip(_)
rstrip(s) ==
    IF s # <<>> /\ InClass("s", s[Len(s)]) THEN rstrip(SubSeq(s, 1, Len(s) - 1)) ELSE s
strip(s) == rstrip(SubSeq(s, span("s", s, 1), Len(s)))

\* str.count of one character
RECURSIVE count(_, _)
count(s, c) ==
    IF s = <<>> THEN 0 ELSE (IF Head(s) = c THEN 1 ELSE 0) + count(Tail(s), c)

\* the index of the first "\n" of s
first_newline(s) ==
    CHOOSE j \in DOMAIN s : s[j] = "\n" /\ \A m \in 1..(j - 1) : s[m] # "\n"

\* str.split("\n")
RECURSIVE split_lines(_)
split_lines(s) ==
    IF \A k \in DOMAIN s : s[k] # "\n" THEN <<s>>
    ELSE <<SubSeq(s, 1, first_newline(s) - 1)>>
           \o split_lines(SubSeq(s, first_newline(s) + 1, Len(s)))

\* "\n".join(body_lines).split("\n"): the lines hold no newline
rejoin(body_lines) == IF body_lines = <<>> THEN << <<>> >> ELSE body_lines

\* body_line.rsplit("}", 1)[0], the line holds a "}"
before_last_brace(s) ==
    SubSeq(s, 1, (CHOOSE j \in DOMAIN s :
                     s[j] = "}" /\ \A m \in (j + 1)..Len(s) : s[m] # "}") - 1)

\* a match that starts at k, a match that failed, `if m:`
MatchAt(k) == [pos |-> k, g1 |-> <<>>, g2 |-> <<>>]
NoMatch == [pos |-> 0, g1 |-> <<>>, g2 |-> <<>>]
Matched(m) == m.pos # 0

\* cls*
m_star(cls, s, m) ==
    IF m.pos = 0 THEN NoMatch ELSE [m EXCEPT !.pos = span(cls, s, m.pos)]

\* cls+
m_plus(cls, s, m) ==
    IF m.pos = 0 \/ span(cls, s, m.pos) = m.pos THEN NoMatch
    ELSE [m EXCEPT !.pos = span(cls, s, m.pos)]

\* the literal w
m_lit(s, m, w) ==
    IF m.pos = 0 \/ ~starts_at(s, m.pos, w) THEN NoMatch
    ELSE [m EXCEPT !.pos = m.pos + Len(w)]

\* m1 is the match of an optional part after m: taken when it matched
m_opt(m, m1) == IF Matched(m1) THEN m1 ELSE m

\* (cls+) as group 1
m_group1(cls, s, m) ==
    IF m.pos = 0 \/ span(cls, s, m.pos) = m.pos THEN NoMatch
    ELSE [pos |-> span(cls, s, m.pos),
          g1 |-> SubSeq(s, m.pos, span(cls, s, m.pos) - 1), g2 |-> m.g2]

\* (cls+) as group 2
m_group2(cls, s, m) ==
    IF m.pos = 0 \/ span(cls, s, m.pos) = m.pos THEN NoMatch
    ELSE [pos |-> span(cls, s, m.pos), g1 |-> m.g1,
          g2 |-> SubSeq(s, m.pos, span(cls, s, m.pos) - 1)]

\* $
m_end(s, m) == IF m.pos = Len(s) + 1 THEN m ELSE NoMatch

\* ^(?:typedef\s+)?
opt_typedef(s) ==
    m_opt(MatchAt(1), m_plus("s", s, m_lit(s, MatchAt(1), w_typedef)))

\* \s*\{?\s*$
opens_to_end(s, m) ==
    m_end(s, m_star("s", s, m_opt(m_star("s", s, m),
                                  m_lit(s, m_star("s", s, m), <<"{">>))))

\* re.match(r"^(?:typedef\s+)?struct\s+(\w+)\s*\{?\s*$", line)
named_struct_re(s) ==
    opens_to_end(s, m_group1("w", s, m_plus("s", s,
                                            m_lit(s, opt_typedef(s), w_struct))))

\* re.match(r"^typedef\s+struct\s*\{?\s*$", line)
anon_typedef_re(s) ==
    opens_to_end(s, m_lit(s, m_plus("s", s, m_lit(s, MatchAt(1), w_typedef)),
                          w_struct))

\* }\s*(\w+)\s*; with the "}" at k
close_at(s, k) ==
    m_lit(s, m_star("s", s, m_group1("w", s,
                                     m_star("s", s, m_lit(s, MatchAt(k), <<"}">>)))),
          <<";">>)

\* the positions where }\s*(\w+)\s*; matches
close_hits(s) == {k \in DOMAIN s : Matched(close_at(s, k))}

\* re.search(r"}\s*(\w+)\s*;", closing_line): the leftmost match
close_re(s) ==
    IF close_hits(s) = {} THEN NoMatch
    ELSE close_at(s, CHOOSE k \in close_hits(s) : \A j \in close_hits(s) : k <= j)

\* (cls+)\s+(\w+)\s* after m
two_words(cls, s, m) ==
    m_star("s", s, m_group2("w", s, m_plus("s", s, m_group1(cls, s, m))))

\* ^\s*typedef\s+
typedef_prefix(s) ==
    m_plus("s", s, m_lit(s, m_star("s", s, MatchAt(1)), w_typedef))

\* _STRUCT_TYPEDEF_RE: ^\s*typedef\s+struct\s+(\w+)\s+(\w+)\s*;$
STRUCT_TYPEDEF_RE(s) ==
    m_end(s, m_lit(s, two_words("w", s,
                                m_plus("s", s, m_lit(s, typedef_prefix(s), w_struct))),
                   <<";">>))

\* _SIMPLE_TYPEDEF_RE: ^\s*typedef\s+([\w:]+)\s+(\w+)\s*;$
SIMPLE_TYPEDEF_RE(s) ==
    m_end(s, m_lit(s, two_words("w:", s, typedef_prefix(s)), <<";">>))

\* re.match(r"^struct\s*\{\s*$", line)
anon_struct_re(s) ==
    m_end(s, m_star("s", s, m_lit(s, m_star("s", s, m_lit(s, MatchAt(1), w_struct)),
                                  <<"{">>)))

\* re.match(r"^(?:typedef\s+)?struct\s+\w+", line)
nested_struct_re(s) ==
    m_plus("w", s, m_plus("s", s, m_lit(s, opt_typedef(s), w_struct)))

\* ^(?:std::)?(?:vector|list)
vector_prefix(s, m) ==
    m_opt(m_lit(s, m, w_list), m_lit(s, m, w_vector))

\* re.match(r"^(?:std::)?(?:vector|list)\s*<\s*([\w:]+)\s*>\s+(\w+)\s*;", line)
vec_re(s) ==
    m_lit(s,
          m_star("s", s,
            m_group2("w", s,
              m_plus("s", s,
                m_lit(s,
                      m_star("s", s,
                        m_group1("w:", s,
                          m_star("s", s,
                            m_lit(s,
                                  m_star("s", s,
                                    vector_prefix(s,
                                      m_opt(MatchAt(1),
                                            m_lit(s, MatchAt(1), w_std_colons)))),
                                  <<"<">>)))),
                      <<">">>)))),
          <<";">>)

\* \s*\[\s*\d*\s*\]\s*; after m
array_suffix(s, m) ==
    m_lit(s,
          m_star("s", s,
            m_lit(s,
                  m_star("s", s,
                    m_star("d", s,
                      m_star("s", s, m_lit(s, m_star("s", s, m), <<"[">>)))),
                  <<"]">>)),
          <<";">>)

\* re.match(r"^char\s+(\w+)\s*\[\s*\d*\s*\]\s*;", line)
char_arr_re(s) ==
    array_suffix(s, m_group1("w", s, m_plus("s", s, m_lit(s, MatchAt(1), w_char))))

\* re.match(r"^([\w:]+)\s+(\w+)\s*\[\s*\d*\s*\]\s*;", line)
arr_re(s) == array_suffix(s, two_words("w:", s, MatchAt(1)))

\* re.match(r"^([\w:]+)\s+(\w+)\s*;", line)
field_re(s) == m_lit(s, two_words("w:", s, MatchAt(1)), <<";">>)

\* `if type_name.startswith("std::"): type_name = type_name[5:]`
strip_std(type_name) ==
    IF startswith(type_name, w_std_colons) THEN SubSeq(type_name, 6, Len(type_name))
    ELSE type_name

\* type_aliases[key] = value
alias_put(aliases, key, value) ==
    [x \in (DOMAIN aliases) \cup {key} |-> IF x = key THEN value ELSE aliases[x]]

\* one round of the pre-pass of _parse_structs, on the stripped line
collect_alias(stripped, aliases) ==
    IF Matched(STRUCT_TYPEDEF_RE(stripped))
    THEN alias_put(aliases, STRUCT_TYPEDEF_RE(stripped).g2,
                   STRUCT_TYPEDEF_RE(stripped).g1)
    ELSE IF /\ Matched(SIMPLE_TYPEDEF_RE(stripped))
            /\ SIMPLE_TYPEDEF_RE(stripped).g1 # w_struct
    THEN alias_put(aliases, SIMPLE_TYPEDEF_RE(stripped).g2,
                   SIMPLE_TYPEDEF_RE(stripped).g1)
    ELSE aliases

\* the pre-pass of _parse_structs over lines[k..]
RECURSIVE collect_aliases(_, _, _)
collect_aliases(lines, k, aliases) ==
    IF k > Len(lines) THEN aliases
    ELSE collect_aliases(lines, k + 1, collect_alias(strip(lines[k]), aliases))

\* one round of the body collecting loop; d is the new brace_depth
collected(body_line, d, body_lines) ==
    IF d > 0 THEN Append(body_lines, body_line)
    ELSE IF strip(before_last_brace(body_line)) # <<>>
         THEN Append(body_lines, before_last_brace(body_line))
         ELSE body_lines

\* the body collecting loop of _parse_structs and _parse_cpp_fields:
\* `while i < len(lines) and brace_depth > 0`
RECURSIVE collect_body(_, _, _, _, _)
collect_body(lines, k, brace_depth, body_lines, closing_line) ==
    IF k <= Len(lines) /\ brace_depth > 0
    THEN CHOOSE v \in {
             collect_body(lines, k + 1, d, collected(lines[k], d, body_lines),
                          IF d > 0 THEN closing_line ELSE lines[k])
           : d \in {brace_depth + count(lines[k], "{") - count(lines[k], "}")}} : TRUE
    ELSE [pos |-> k, body_lines |-> body_lines, closing_line |-> closing_line]

\* second loop of "skip named nested struct definitions":
\* `while i < len(lines) and brace_depth > 0`
RECURSIVE skip_to_close(_, _, _)
skip_to_close(lines, k, brace_depth) ==
    IF k <= Len(lines) /\ brace_depth > 0
    THEN skip_to_close(lines, k + 1,
                       brace_depth + count(lines[k], "{") - count(lines[k], "}"))
    ELSE k

\* first loop: `while i < len(lines): ...; if brace_depth > 0: break`, then
\* the second loop
RECURSIVE skip_to_open(_, _, _)
skip_to_open(lines, k, brace_depth) ==
    IF k > Len(lines) THEN k
    ELSE CHOOSE v \in {
             IF d > 0 THEN skip_to_close(lines, k + 1, d)
             ELSE skip_to_open(lines, k + 1, d)
           : d \in {brace_depth + count(lines[k], "{") - count(lines[k], "}")}} : TRUE

\* the position after a named nested struct definition that starts at line k,
\* brace_depth counted on that line
skip_nested_struct(lines, k, brace_depth) ==
    IF brace_depth = 0 THEN skip_to_open(lines, k + 1, 0)
    ELSE skip_to_close(lines, k + 1, brace_depth)

\* the lines _parse_cpp_fields skips: empty, comment, preprocessor, access
skipped_line(s) ==
    \/ s = <<>>
    \/ startswith(s, <<"/","/">>)
    \/ startswith(s, <<"/","*">>)
    \/ startswith(s, <<"*">>)
    \/ startswith(s, <<"#">>)
    \/ s \in {w_public \o <<":">>, w_private \o <<":">>, w_protected \o <<":">>}

\* the Field of a declaration line; the type is the alias-resolved group
line_field(field_name, type_name, aliases, is_repeated) ==
    Field(field_name, resolve_alias(strip_std(type_name), aliases), is_repeated,
          FALSE, None)

\* the field patterns of _parse_cpp_fields on one stripped line: the list
\* `fields` after the round
fields_after(stripped, aliases, fields) ==
    IF Matched(vec_re(stripped))
    THEN Append(fields, line_field(vec_re(stripped).g2, vec_re(stripped).g1,
                                   aliases, TRUE))
    ELSE IF Matched(char_arr_re(stripped))
    THEN Append(fields, Field(char_arr_re(stripped).g1, w_char, FALSE, FALSE, None))
    ELSE IF Matched(arr_re(stripped))
    THEN Append(fields, line_field(arr_re(stripped).g2, arr_re(stripped).g1,
                                   aliases, TRUE))
    ELSE IF Matched(field_re(stripped))
    THEN Append(fields, line_field(field_re(stripped).g2, field_re(stripped).g1,
                                   aliases, FALSE))
    ELSE fields

RECURSIVE parse_cpp_fields_loop(_, _, _, _, _)
RECURSIVE parse_cpp_fields_line(_, _, _, _, _, _)
RECURSIVE anon_struct_field(_, _, _, _, _)
RECURSIVE add_anon_struct(_, _, _, _, _, _, _)

\* cpp_parser._parse_cpp_fields on the lines of body_text
parse_cpp_fields(lines, aliases) == parse_cpp_fields_loop(lines, 1, aliases, <<>>, <<>>)

\* the `while i < len(lines)` loop of _parse_cpp_fields, k = i + 1
parse_cpp_fields_loop(lines, k, aliases, fields, anon_messages) ==
    IF k > Len(lines) THEN [fields |-> fields, anon_messages |-> anon_messages]
    ELSE parse_cpp_fields_line(lines, k, strip(lines[k]), aliases, fields,
                               anon_messages)

\* one round of the loop, `line` is stripped
parse_cpp_fields_line(lines, k, stripped, aliases, fields, anon_messages) ==
    IF Matched(anon_struct_re(stripped))
    THEN anon_struct_field(lines, collect_body(lines, k + 1, 1, <<>>, <<>>), aliases,
                           fields, anon_messages)
    ELSE IF Matched(nested_struct_re(stripped))
    THEN parse_cpp_fields_loop(
             lines,
             skip_nested_struct(lines, k,
                                count(stripped, "{") - count(stripped, "}")),
             aliases, fields, anon_messages)
    ELSE IF skipped_line(stripped) \/ startswith(stripped, w_typedef)
    THEN parse_cpp_fields_loop(lines, k + 1, aliases, fields, anon_messages)
    ELSE parse_cpp_fields_loop(lines, k + 1, aliases,
                               fields_after(stripped, aliases, fields), anon_messages)

\* "handle anonymous nested struct", b the collected body
anon_struct_field(lines, b, aliases, fields, anon_messages) ==
    IF Matched(close_re(b.closing_line))
    THEN add_anon_struct(lines, b.pos, aliases, fields, anon_messages,
                         close_re(b.closing_line).g1,
                         parse_cpp_fields(rejoin(b.body_lines), aliases))
    ELSE parse_cpp_fields_loop(lines, b.pos, aliases, fields, anon_messages)

\* the synthetic Message and the Field of an anonymous struct, then the
\* rest of the loop
add_anon_struct(lines, k, aliases, fields, anon_messages, field_name, inner) ==
    parse_cpp_fields_loop(
        lines, k, aliases,
        Append(fields, Field(field_name, synthetic_name(field_name), FALSE, TRUE, None)),
        anon_messages \o <<Message(synthetic_name(field_name), inner.fields)>>
                      \o inner.anon_messages)

\* `while i < len(lines) and lines[i].strip() == "": i += 1`
RECURSIVE skip_blank(_, _)
skip_blank(lines, k) ==
    IF k <= Len(lines) /\ strip(lines[k]) = <<>> THEN skip_blank(lines, k + 1) ELSE k

RECURSIVE parse_structs(_, _)
RECURSIVE parse_structs_loop(_, _, _, _)
RECURSIVE parse_structs_line(_, _, _, _, _)
RECURSIVE open_on_next_line(_, _, _, _, _)
RECURSIVE parse_struct_at(_, _, _, _, _)
RECURSIVE add_struct(_, _, _, _, _, _)

\* cpp_parser._parse_structs on the lines of text: the messages, and the
\* dict type_aliases as the call leaves it
parse_structs(lines, type_aliases) ==
    parse_structs_loop(lines, 1, collect_aliases(lines, 1, type_aliases), <<>>)

\* the main `while i < len(lines)` loop of _parse_structs, k = i + 1
parse_structs_loop(lines, k, type_aliases, messages) ==
    IF k > Len(lines) THEN [messages |-> messages, type_aliases |-> type_aliases]
    ELSE parse_structs_line(lines, k, strip(lines[k]), type_aliases, messages)

\* one round of the loop, `line` is stripped
parse_structs_line(lines, k, stripped, type_aliases, messages) ==
    IF ~(Matched(named_struct_re(stripped)) \/ Matched(anon_typedef_re(stripped)))
    THEN parse_structs_loop(lines, k + 1, type_aliases, messages)
    ELSE IF count(stripped, "{") - count(stripped, "}") = 0
    THEN open_on_next_line(lines, skip_blank(lines, k + 1), stripped, type_aliases,
                           messages)
    ELSE parse_struct_at(lines,
                         collect_body(lines, k + 1,
                                      count(stripped, "{") - count(stripped, "}"),
                                      <<>>, <<>>),
                         stripped, type_aliases, messages)

\* "opening brace might be on the next line", k1 the first non-blank line
open_on_next_line(lines, k1, stripped, type_aliases, messages) ==
    IF k1 <= Len(lines) /\ count(lines[k1], "{") > 0
    THEN parse_struct_at(lines, collect_body(lines, k1 + 1, 1, <<>>, <<>>), stripped,
                         type_aliases, messages)
    ELSE parse_structs_loop(lines, k1, type_aliases, messages)

\* the struct whose body b was collected
parse_struct_at(lines, b, stripped, type_aliases, messages) ==
    IF ~Matched(named_struct_re(stripped)) /\ ~Matched(close_re(b.closing_line))
    THEN parse_structs_loop(lines, b.pos, type_aliases, messages)
    ELSE add_struct(lines, b.pos, messages,
                    IF Matched(named_struct_re(stripped))
                    THEN named_struct_re(stripped).g1
                    ELSE close_re(b.closing_line).g1,
                    parse_cpp_fields(rejoin(b.body_lines), type_aliases),
                    parse_structs(rejoin(b.body_lines), type_aliases))

\* messages.append(msg); messages.extend(nested_structs), then the rest of
\* the loop; `inner` is the nested _parse_structs call, which shares the dict
add_struct(lines, k, messages, struct_name, own, inner) ==
    parse_structs_loop(
        lines, k, inner.type_aliases,
        messages \o struct_messages(struct_name, own.fields,
                                    inner.messages \o own.anon_messages))

\* cpp_parser.parse_cpp_header on the text of the file
parse_cpp_header(file_text) == parse_structs(split_lines(file_text), <<>>).messages

\* ------------------------------------------------------------------------
\* The C++ pipelines on one header file:
\*   tokenize_cpp -> CppParser.parse -> transform_cpp   (the tokenizer pipeline)
\*   parse_cpp_header                                    (the line based parser)
\* A run takes one of the two.
\* ------------------------------------------------------------------------
sp == <<" ">>
nl == <<"\n">>
w_int == <<"i","n","t">>
w_Byte == <<"B","y","t","e">>
w_typedef_t == <<"t","y","p","e","d","e","f","_","t">>

\* the files: declarations of a struct body, as in tests/test_cpp_parser.py.
\* size is None for a plain field.
Decl(type_name, field_name, size) ==
    [type_name |-> type_name, field_name |-> field_name, size |-> size]

DeclPool ==
    { Decl(w_char, <<"n">>, Some(<<"8">>)),         \* char n[8];
      Decl(w_int, <<"s">>, Some(<<"4">>)),          \* int s[4];
      Decl(w_Byte, <<"b">>, Some(<<>>)),            \* Byte b[];
      Decl(w_typedef_t, <<"u">>, Some(<<"1">>)),    \* typedef_t u[1];
      Decl(w_int, <<"z">>, Some(<<"N">>)),          \* int z[N];
      Decl(w_int, <<"p">>, None) }                  \* int p;

decl_text(d) ==
    d.type_name \o sp \o d.field_name
      \o (IF d.size = None THEN <<>> ELSE <<"[">> \o Val(d.size) \o <<"]">>)
      \o <<";">>

\* the declarations of a body, each on a line of its own or all on one line
RECURSIVE body_text(_, _)
body_text(decls, layout) ==
    IF decls = <<>> THEN <<>>
    ELSE (IF layout = "lines" THEN sp \o decl_text(Head(decls)) \o nl
          ELSE decl_text(Head(decls)) \o sp)
         \o body_text(Tail(decls), layout)

\* struct S { ... };
struct_text(decls, layout) ==
    w_struct \o sp \o <<"S">> \o sp \o <<"{">>
      \o (IF layout = "lines" THEN nl ELSE sp)
      \o body_text(decls, layout) \o <<"}", ";">> \o nl

\* typedef char Byte;
byte_typedef_text == w_typedef \o sp \o w_char \o sp \o w_Byte \o <<";">> \o nl

\* struct T {\n int y;\n};
second_struct_text ==
    w_struct \o sp \o <<"T">> \o sp \o <<"{">> \o nl
      \o sp \o w_int \o sp \o <<"y">> \o <<";">> \o nl \o <<"}", ";">> \o nl

Layouts == {"lines", "one line"}
TypedefPlaces == {"before", "after"}

CppFile(decls, layout, place, second) ==
    (IF place = "before" THEN byte_typedef_text ELSE <<>>)
      \o struct_text(decls, layout)
      \o (IF second THEN second_struct_text ELSE <<>>)
      \o (IF place = "after" THEN byte_typedef_text ELSE <<>>)

DeclLists == UNION {[1..m -> DeclPool] : m \in 0..MaxDecls}

CppFiles ==
    {CppFile(decls, layout, place, second) :
        decls \in DeclLists, layout \in Layouts,
        place \in TypedefPlaces, second \in BOOLEAN}

InitCpp ==
    /\ IdleMatch /\ IdleNorm /\ IdleAlias /\ IdleProto /\ IdleFile /\ IdleRun /\ IdleRep /\ IdleParse
    /\ t_lang = "cpp"
    /\ text \in CppFiles
    /\ t_i = 0
    /\ line = 1
    /\ col = 1
    /\ tokens = <<>>
    /\ tpc = "scan"
    /\ ast = None
    /\ tok_messages = None
    /\ re_messages = None

\* one round of the while loop of tokenize_cpp
TokStepCpp ==
    /\ t_lang = "cpp"
    /\ \/ Whitespace
       \/ Newline
       \/ CppPreprocessor
       \/ LineComment
       \/ BlockComment
       \/ CppColonColon
       \/ CppColon
       \/ CppSingleChar
       \/ Number
       \/ Identifier
       \/ OtherChar

\* ast = CppParser(tokens).parse()
ParseCpp ==
    /\ t_lang = "cpp"
    /\ tpc = "returned"
    /\ ast = None
    /\ ast' = Some(parse)
    /\ UNCHANGED <<tok_messages, re_messages>>

\* messages = transform_cpp(ast, source_file); a raised CppParseError has
\* left the caller before this line
TransformCpp ==
    /\ ast # None
    /\ ~Val(ast).err
    /\ tok_messages = None
    /\ tok_messages' = Some(transform_cpp(Val(ast)))
    /\ UNCHANGED <<ast, re_messages>>

\* messages = parse_cpp_header(file_path), the file holding `text`
ParseCppHeader ==
    /\ t_lang = "cpp"
    /\ tpc = "scan" /\ t_i = 0
    /\ re_messages = None
    /\ re_messages' = Some(parse_cpp_header(text))
    /\ UNCHANGED <<ast, tok_messages>>

NextCpp ==
    \/ TokStepCpp /\ re_messages = None /\ UNCHANGED notTokVars
    \/ ReturnTokens /\ re_messages = None /\ UNCHANGED notTokVars
    \/ ParseCpp /\ UNCHANGED notCppVars
    \/ TransformCpp /\ UNCHANGED notCppVars
    \/ ParseCppHeader /\ UNCHANGED notCppVars

SpecCpp == InitCpp /\ [][NextCpp]_vars

\* C8: CppParser.parse never aborts the whole file: a statement that does
\* not fit the grammar (a field whose array size is an identifier) is
\* skipped, and parse returns an AST that still holds every well-formed
\* struct that follows -- here the struct T that ends the file.
C8_ParseNeverAborts ==
    ast # None =>
        /\ ~Val(ast).err
        /\ (\E k \in DOMAIN text : starts_at(text, k, second_struct_text))
             => \E i \in DOMAIN Val(ast).structs :
                    /\ Val(ast).structs[i].name = Some(<<"T">>)
                    /\ Len(Val(ast).structs[i].fields) = 1

\* the array declarations of the claim C9: T name[N]; with N digits or empty
IsArrayDecl(d) == d.size # None /\ \A k \in DOMAIN Val(d.size) : IsDigit(Val(d.size)[k])

\* the Field that an array declaration of the files becomes: a char array
\* is a string, an array of another type is repeated; Byte is a typedef of
\* char in every file
ArrayField(d) ==
    Field(d.field_name,
          IF d.type_name = w_Byte THEN w_char ELSE d.type_name,
          d.type_name # w_char, FALSE, None)

\* the messages a finished pipeline returned
Returned == {Val(r) : r \in {tok_messages, re_messages} \ {None}}

\* C9: in a struct body `char name[N];` becomes a Field of type char that
\* is not repeated, and `T name[N];` for any other T a repeated Field of
\* the alias-resolved type T, in the tokenizer pipeline and in
\* parse_cpp_header alike: in a file whose declarations all fit the grammar,
\* the message S holds that Field for every array declaration of the body.
C9_ArrayFields ==
    Returned # {} =>
        \A decls \in DeclLists, layout \in Layouts, place \in TypedefPlaces,
           second \in BOOLEAN :
            (/\ text = CppFile(decls, layout, place, second)
             /\ \A k \in DOMAIN decls : decls[k].size # None => IsArrayDecl(decls[k]))
            => \A messages \in Returned, k \in DOMAIN decls :
                   IsArrayDecl(decls[k]) =>
                       \E i \in DOMAIN messages :
                           /\ messages[i].original_name = <<"S">>
                           /\ \E j \in DOMAIN messages[i].fields :
                                  messages[i].fields[j] = ArrayField(decls[k])

\* ------------------------------------------------------------------------
\* _resolve_alias step by step, on the aliases of a tokenized header:
\*   tokenize_cpp -> CppParser.parse -> the alias dict of transform_cpp ->
\*   one call _resolve_alias(type_name, aliases) from _transform_field_decl
\* ------------------------------------------------------------------------
w_A == <<"A">>
w_B == <<"B">>

\* typedef <existing> <new>;
typedef_text(td) ==
    w_typedef \o sp \o td.existing_type \o sp \o td.new_name \o <<";">> \o nl

RECURSIVE typedefs_text(_)
typedefs_text(tds) ==
    IF tds = <<>> THEN <<>> ELSE typedef_text(Head(tds)) \o typedefs_text(Tail(tds))

\* the typedefs of the files: chains, self references and cycles included
TypedefPool ==
    {[existing_type |-> existing, new_name |-> new] :
        existing \in {w_int, w_A, w_B}, new \in {w_A, w_B}}

TypedefLists == UNION {[1..m -> TypedefPool] : m \in 0..MaxTypedefs}

\* struct S {\n <type> x;\n};
field_struct_text(type_name) ==
    w_struct \o sp \o <<"S">> \o sp \o <<"{">> \o nl
      \o sp \o type_name \o sp \o <<"x">> \o <<";">> \o nl \o <<"}", ";">> \o nl

\* the first `cut` typedefs stand before the struct, the others after it
AliasFile(tds, cut, type_name) ==
    typedefs_text(SubSeq(tds, 1, cut)) \o field_struct_text(type_name)
      \o typedefs_text(SubSeq(tds, cut + 1, Len(tds)))

AliasFiles ==
    {AliasFile(f[1], f[2], f[3]) :
        f \in {g \in TypedefLists \X (0..MaxTypedefs) \X {w_A, w_B} : g[2] <= Len(g[1])}}

InitAlias ==
    /\ IdleMatch /\ IdleNorm /\ IdleCpp /\ IdleAlias /\ IdleProto /\ IdleFile /\ IdleRun /\ IdleRep /\ IdleParse
    /\ t_lang = "cpp"
    /\ text \in AliasFiles
    /\ t_i = 0
    /\ line = 1
    /\ col = 1
    /\ tokens = <<>>
    /\ tpc = "scan"

\* transform_cpp: `for alias in ast.type_aliases: aliases[...] = ...`
BuildAliases ==
    /\ ast # None
    /\ ~Val(ast).err
    /\ apc = "idle"
    /\ a_aliases' = build_aliases(Val(ast).type_aliases)
    /\ apc' = "built"
    /\ UNCHANGED <<a_arg, a_name, a_seen, a_result>>

\* _transform_field_decl: `type_name = _resolve_alias(type_name, aliases)`
\* for a field of a struct; _resolve_alias: `seen = set()`
CallResolve ==
    /\ apc = "built"
    /\ \E i \in DOMAIN Val(ast).structs :
         \E j \in DOMAIN Val(ast).structs[i].fields :
            /\ a_arg' = Val(ast).structs[i].fields[j].type_name
            /\ a_name' = Val(ast).structs[i].fields[j].type_name
    /\ a_seen' = {}
    /\ apc' = "loop"
    /\ UNCHANGED <<a_aliases, a_result>>

\* mutant of ResolveGuard: the loop does not look at `seen`
ResolveGuardNoSeen == a_name \in DOMAIN a_aliases

\* `while name in aliases and name not in seen`
ResolveGuard == a_name \in DOMAIN a_aliases /\ a_name \notin a_seen

\* `seen.add(name); name = aliases[name]`
ResolveStep ==
    /\ apc = "loop"
    /\ ResolveGuard
    /\ a_seen' = a_seen \cup {a_name}
    /\ a_name' = a_aliases[a_name]
    /\ UNCHANGED <<a_aliases, a_arg, a_result, apc>>

\* `return name`
ResolveReturn ==
    /\ apc = "loop"
    /\ ~ResolveGuard
    /\ a_result' = Some(a_name)
    /\ apc' = "returned"
    /\ UNCHANGED <<a_aliases, a_arg, a_name, a_seen>>

NextAlias ==
    \/ TokStepCpp /\ UNCHANGED notTokVars
    \/ ReturnTokens /\ UNCHANGED notTokVars
    \/ ParseCpp /\ UNCHANGED notCppVars
    \/ BuildAliases /\ UNCHANGED notAliasVars
    \/ CallResolve /\ UNCHANGED notAliasVars
    \/ ResolveStep /\ UNCHANGED notAliasVars
    \/ ResolveReturn /\ UNCHANGED notAliasVars

SpecAlias == InitAlias /\ [][NextAlias]_vars

\* the statements of one call run one after the other: a step that can be
\* taken is taken
FairSpecAlias == SpecAlias /\ WF_vars(NextAlias)

\* what C10 says of a call that returned: the result is a_arg or the
\* alias of a name the loop went through; it is a key of the map only if
\* the chain came back to a name it had seen (a cycle); it is what
\* resolve_alias gives on the typedef lines of the whole file, before and
\* after the struct; and with B -> A, A -> int a field of type B gets int
C10_Returned ==
    apc = "returned" =>
        /\ a_seen \subseteq DOMAIN a_aliases
        /\ \/ Val(a_result) = a_arg /\ a_seen = {}
           \/ \E key \in a_seen : Val(a_result) = a_aliases[key]
        /\ Val(a_result) \in DOMAIN a_aliases => Val(a_result) \in a_seen
        /\ Val(a_result)
             = resolve_alias(a_arg, collect_aliases(split_lines(text), 1, <<>>))
        /\ (/\ a_arg = w_B
            /\ DOMAIN a_aliases = {w_A, w_B}
            /\ a_aliases[w_B] = w_A
            /\ a_aliases[w_A] = w_int) => Val(a_result) = w_int

\* C10: _resolve_alias terminates for every alias map, maps with cycles
\* included, and for an acyclic chain it returns the last name of the chain,
\* which is not a key of the map: with typedef int A; typedef A B; a field
\* of type B gets the type int, wherever the typedefs stand in the file.
C10_ResolveAliasTerminates ==
    /\ []C10_Returned
    /\ (apc = "loop") ~> (apc = "returned")

\* witness of C10: both typedefs stand after the struct, the chain B -> A ->
\* int was followed to its end
C10_Witness ==
    /\ apc = "returned"
    /\ starts_at(text, 1, w_struct)
    /\ a_arg = w_B
    /\ a_seen = {w_A, w_B}
    /\ a_result = Some(w_int)

\* ------------------------------------------------------------------------
\* proto_ast_parser.ProtoParser: the parser reads the token list `tokens`
\* that tokenize_proto returned.  _peek, _advance, _expect and _at_end are
\* those of CppParser.
\* ------------------------------------------------------------------------
\* proto_ast.ProtoField
ProtoField(type_name, field_name, field_number, is_repeated) ==
    [type_name |-> type_name, field_name |-> field_name,
     field_number |-> field_number, is_repeated |-> is_repeated]

\* proto_ast.ProtoMessage
ProtoMessage(name, fields, nested_messages) ==
    [name |-> name, fields |-> fields, nested_messages |-> nested_messages]

\* proto_ast.ProtoFile, or the ProtoParseError that left parse()
ProtoFile(messages) == [err |-> FALSE, messages |-> messages]
ProtoParseError == [err |-> TRUE, messages |-> <<>>]

\* int(c) of one decimal digit
digit_value(c) ==
    CASE c = "0" -> 0 [] c = "1" -> 1 [] c = "2" -> 2 [] c = "3" -> 3
      [] c = "4" -> 4 [] c = "5" -> 5 [] c = "6" -> 6 [] c = "7" -> 7
      [] c = "8" -> 8 [] c = "9" -> 9

\* int(num_tok.value) of a NUMBER token, a non-empty run of digits
RECURSIVE int(_)
int(digits) ==
    IF digits = <<>> THEN 0
    ELSE 10 * int(SubSeq(digits, 1, Len(digits) - 1)) + digit_value(digits[Len(digits)])

\* mutant of skip_statement: the keyword alone is skipped
skip_statement_keyword_only(p) == p + 1

\* ProtoParser._skip_statement: the position after the call
RECURSIVE skip_statement(_)
skip_statement(p) ==
    IF at_end(p) THEN p
    ELSE IF tokens[p + 1].type = "SEMICOLON" THEN p + 1
         ELSE skip_statement(p + 1)

\* `while not self._at_end() and self._peek().type != LBRACE: self._advance()`
RECURSIVE skip_to_lbrace(_)
skip_to_lbrace(p) ==
    IF ~at_end(p) /\ tokens[p + 1].type # "LBRACE" THEN skip_to_lbrace(p + 1) ELSE p

\* ProtoParser._skip_block: the keyword, the tokens up to `{`, `{`, and the
\* tokens up to the `}` that brings depth back to 0
skip_block(p) == skip_braces(advance(skip_to_lbrace(advance(p))), 1)

\* ProtoParser._parse_field; the first exception leaves the method
parse_field(p, is_repeated) ==
    CHOOSE v \in {
        IF name_tok.err THEN Raised(name_tok.pos)
        ELSE CHOOSE v1 \in {
                 IF num_tok.err THEN Raised(num_tok.pos)
                 ELSE IF peek(num_tok.pos).type # "SEMICOLON" THEN Raised(num_tok.pos)
                 ELSE [err |-> FALSE, pos |-> num_tok.pos + 1,
                       field |-> ProtoField(peek(name_tok.pos - 2).value,
                                            name_tok.value, int(num_tok.value),
                                            is_repeated)]
               : num_tok \in {then_expect(expect(name_tok.pos, "EQUALS"), "NUMBER")}}
               : TRUE
      : name_tok \in {then_expect(
                          IF is_repeated
                          THEN then_expect(expect(p, "REPEATED"), "IDENT")
                          ELSE expect(p, "IDENT"),
                          "IDENT")}} : TRUE

\* what _parse_message_body returns: the lists `fields` and `nested`
ProtoBody(p, fields, nested) ==
    [err |-> FALSE, pos |-> p, fields |-> fields, nested |-> nested]

RECURSIVE parse_message_body_loop(_, _, _)
RECURSIVE parse_message(_)

\* ProtoParser._parse_message_body: its while loop, p the current position
parse_message_body_loop(p, fields, nested) ==
    IF at_end(p) \/ tokens[p + 1].type = "RBRACE" THEN ProtoBody(p, fields, nested)
    ELSE IF tokens[p + 1].type = "MESSAGE"
    THEN CHOOSE v \in {
             IF m.err THEN Raised(m.pos)
             ELSE parse_message_body_loop(m.pos, fields, Append(nested, m.message))
           : m \in {parse_message(p)}} : TRUE
    ELSE IF tokens[p + 1].type \in {"REPEATED", "IDENT"}
    THEN CHOOSE v \in {
             IF f.err THEN Raised(f.pos)
             ELSE parse_message_body_loop(f.pos, Append(fields, f.field), nested)
           : f \in {parse_field(p, tokens[p + 1].type = "REPEATED")}} : TRUE
    ELSE IF tokens[p + 1].type \in {"OPTION", "RESERVED"}
    THEN parse_message_body_loop(skip_statement(p), fields, nested)
    ELSE IF tokens[p + 1].type \in {"ENUM", "ONEOF"}
    THEN parse_message_body_loop(skip_block(p), fields, nested)
    ELSE parse_message_body_loop(p + 1, fields, nested)

\* ProtoParser._parse_message_body
parse_message_body(p) == parse_message_body_loop(p, <<>>, <<>>)

\* MESSAGE IDENT `{` are consumed: the body, `}`, then the ProtoMessage
message_of_body(body, name) ==
    IF body.err THEN Raised(body.pos)
    ELSE IF peek(body.pos).type # "RBRACE" THEN Raised(body.pos)
    ELSE [err |-> FALSE, pos |-> body.pos + 1,
          message |-> ProtoMessage(name, body.fields, body.nested)]

\* ProtoParser._parse_message
parse_message(p) ==
    CHOOSE v \in {
        IF open.err THEN Raised(open.pos)
        ELSE message_of_body(parse_message_body(open.pos), peek(p + 1).value)
      : open \in {then_expect(then_expect(expect(p, "MESSAGE"), "IDENT"), "LBRACE")}}
      : TRUE

\* ProtoParser.parse: its while loop, p the current position
RECURSIVE proto_parse_loop(_, _)
proto_parse_loop(p, messages) ==
    IF at_end(p) THEN ProtoFile(messages)
    ELSE IF tokens[p + 1].type = "MESSAGE"
    THEN CHOOSE v \in {
             IF m.err THEN ProtoParseError
             ELSE proto_parse_loop(m.pos, Append(messages, m.message))
           : m \in {parse_message(p)}} : TRUE
    ELSE IF tokens[p + 1].type \in {"SYNTAX", "PACKAGE", "OPTION", "IMPORT", "RESERVED"}
    THEN proto_parse_loop(skip_statement(p), messages)
    ELSE IF tokens[p + 1].type = "ENUM"
    THEN proto_parse_loop(skip_block(p), messages)
    ELSE proto_parse_loop(p + 1, messages)

\* ProtoParser(tokens).parse()
proto_parse == proto_parse_loop(0, <<>>)

\* ------------------------------------------------------------------------
\* proto_transform: ProtoFile -> flat list of Message
\* ------------------------------------------------------------------------
w_int32 == <<"i","n","t","3","2">>
w_string == <<"s","t","r","i","n","g">>

\* proto_transform.PROTO_PRIMITIVES
PROTO_PRIMITIVES ==
    { w_int32, <<"s">> \o w_int32, <<"u">> \o w_int32,
      <<"s","f","i","x","e","d","3","2">>, <<"f","i","x","e","d","3","2">>,
      <<"i","n","t","6","4">>, <<"s","i","n","t","6","4">>, <<"u","i","n","t","6","4">>,
      <<"s","f","i","x","e","d","6","4">>, <<"f","i","x","e","d","6","4">>,
      <<"f","l","o","a","t">>, <<"d","o","u","b","l","e">>,
      <<"b","o","o","l">>, w_string, <<"b","y","t","e","s">> }

\* mutant of proto_is_nested: every field counts as a message reference
proto_is_nested_always(type_name) == TRUE

\* `is_nested = f.type_name not in PROTO_PRIMITIVES`
proto_is_nested(type_name) == type_name \notin PROTO_PRIMITIVES

\* {n.name for n in node.nested_messages}
direct_nested_names(node) ==
    {node.nested_messages[k].name : k \in DOMAIN node.nested_messages}

\* the Messages of nested_messages that nested_by_name takes: those named as
\* a direct child
RECURSIVE direct_named(_, _)
direct_named(nested_messages, names) ==
    IF nested_messages = <<>> THEN <<>>
    ELSE (IF Head(nested_messages).original_name \in names
          THEN <<Head(nested_messages)>> ELSE <<>>)
         \o direct_named(Tail(nested_messages), names)

\* the body of the loop over node.fields, candidates the Messages of
\* nested_by_name
transform_proto_field(f, candidates) ==
    Field(f.field_name, f.type_name, f.is_repeated, proto_is_nested(f.type_name),
          nested_by_name(candidates, f.type_name))

\* [msg] + nested_messages
message_and_nested(node, nested_messages, candidates) ==
    <<Message(node.name,
              [k \in DOMAIN node.fields |-> transform_proto_field(node.fields[k], candidates)])>>
      \o nested_messages

RECURSIVE transform_message(_)
RECURSIVE transform_messages(_)

\* the rest of _transform_message once nested_messages is computed
transform_message_with(node, nested_messages) ==
    message_and_nested(node, nested_messages,
                       direct_named(nested_messages, direct_nested_names(node)))

\* proto_transform._transform_message
transform_message(node) ==
    transform_message_with(node, transform_messages(node.nested_messages))

\* result.extend(_transform_message(...)) over a list of messages
transform_messages(nodes) ==
    IF nodes = <<>> THEN <<>>
    ELSE transform_message(Head(nodes)) \o transform_messages(Tail(nodes))

\* proto_transform.transform_proto
transform_proto(file) == transform_messages(file.messages)

\* ------------------------------------------------------------------------
\* proto_parser: the line based parser behind parse_proto_file
\* ------------------------------------------------------------------------
w_message == <<"m","e","s","s","a","g","e">>
w_repeated == <<"r","e","p","e","a","t","e","d">>
w_option == <<"o","p","t","i","o","n">>
w_reserved == <<"r","e","s","e","r","v","e","d">>

\* re.match(r"^message\s+(\w+)\s*\{?\s*$", line)
message_re(s) ==
    opens_to_end(s, m_group1("w", s, m_plus("s", s, m_lit(s, MatchAt(1), w_message))))

\* re.match(r"^message\s+\w+", line)
nested_message_re(s) ==
    m_plus("w", s, m_plus("s", s, m_lit(s, MatchAt(1), w_message)))

\* (\w+)\s+(\w+)\s*=\s*\d+\s*; after m
field_tail(s, m) ==
    m_lit(s, m_star("s", s, m_plus("d", s,
                 m_star("s", s, m_lit(s, two_words("w", s, m), <<"=">>)))),
          <<";">>)

\* re.match(r"^(repeated\s+)?(\w+)\s+(\w+)\s*=\s*\d+\s*;", line): the match
\* with group 1, and the match without it that the engine tries next
repeated_field_re(s) ==
    field_tail(s, m_plus("s", s, m_lit(s, MatchAt(1), w_repeated)))
plain_field_re(s) == field_tail(s, MatchAt(1))

\* the lines _parse_fields skips: empty, comment, option, reserved
skipped_proto_line(s) ==
    \/ s = <<>>
    \/ startswith(s, <<"/","/">>)
    \/ startswith(s, w_option)
    \/ startswith(s, w_reserved)

\* the field pattern of _parse_fields on one stripped line: the list `fields`
\* after the round.  The Field is built without is_nested and nested_type.
proto_fields_after(stripped, fields) ==
    IF Matched(repeated_field_re(stripped))
    THEN Append(fields, Field(repeated_field_re(stripped).g2,
                              repeated_field_re(stripped).g1, TRUE, FALSE, None))
    ELSE IF Matched(plain_field_re(stripped))
    THEN Append(fields, Field(plain_field_re(stripped).g2,
                              plain_field_re(stripped).g1, FALSE, FALSE, None))
    ELSE fields

\* "skip nested message definitions": the position after the definition
\* that starts at line k, brace_depth counted on that line
skip_nested_message(lines, k, brace_depth) ==
    IF brace_depth = 0 THEN skip_to_open(lines, k + 1, 0)
    ELSE skip_to_close(lines, k + 1, brace_depth)

RECURSIVE parse_fields_loop(_, _, _)

\* one round of the loop of _parse_fields, `line` is stripped
parse_fields_line(lines, k, stripped, fields) ==
    IF Matched(nested_message_re(stripped))
    THEN parse_fields_loop(
             lines,
             skip_nested_message(lines, k,
                                 count(stripped, "{") - count(stripped, "}")),
             fields)
    ELSE IF skipped_proto_line(stripped)
    THEN parse_fields_loop(lines, k + 1, fields)
    ELSE parse_fields_loop(lines, k + 1, proto_fields_after(stripped, fields))

\* the `while i < len(lines)` loop of _parse_fields, k = i + 1
parse_fields_loop(lines, k, fields) ==
    IF k > Len(lines) THEN fields
    ELSE parse_fields_line(lines, k, strip(lines[k]), fields)

\* proto_parser._parse_fields on the lines of body_text
parse_fields(lines) == parse_fields_loop(lines, 1, <<>>)

RECURSIVE parse_messages(_)
RECURSIVE parse_messages_loop(_, _, _)
RECURSIVE parse_messages_line(_, _, _, _)
RECURSIVE message_open_on_next_line(_, _, _, _)
RECURSIVE add_message(_, _, _, _)

\* proto_parser._parse_messages on the lines of text
parse_messages(lines) == parse_messages_loop(lines, 1, <<>>)

\* the main `while i < len(lines)` loop of _parse_messages, k = i + 1
parse_messages_loop(lines, k, messages) ==
    IF k > Len(lines) THEN messages
    ELSE parse_messages_line(lines, k, strip(lines[k]), messages)

\* one round of the loop, `line` is stripped
parse_messages_line(lines, k, stripped, messages) ==
    IF ~Matched(message_re(stripped))
    THEN parse_messages_loop(lines, k + 1, messages)
    ELSE IF count(stripped, "{") - count(stripped, "}") = 0
    THEN message_open_on_next_line(lines, skip_blank(lines, k + 1),
                                   message_re(stripped).g1, messages)
    ELSE add_message(lines,
                     collect_body(lines, k + 1,
                                  count(stripped, "{") - count(stripped, "}"),
                                  <<>>, <<>>),
                     message_re(stripped).g1, messages)

\* "opening brace might be on the next line", k1 the first non-blank line
message_open_on_next_line(lines, k1, msg_name, messages) ==
    IF k1 <= Len(lines) /\ count(lines[k1], "{") > 0
    THEN add_message(lines, collect_body(lines, k1 + 1, 1, <<>>, <<>>), msg_name,
                     messages)
    ELSE parse_messages_loop(lines, k1, messages)

\* the message whose body b was collected: its fields, its nested messages,
\* the linking of the fields, messages.append(msg) and
\* messages.extend(nested_messages), then the rest of the loop
add_message(lines, b, msg_name, messages) ==
    parse_messages_loop(
        lines, b.pos,
        messages \o struct_messages(msg_name, parse_fields(rejoin(b.body_lines)),
                                    parse_messages(rejoin(b.body_lines))))

\* proto_parser.parse_proto_file on the text of the file
parse_proto_file(file_text) == parse_messages(split_lines(file_text))

\* ------------------------------------------------------------------------
\* The proto pipelines on one .proto file:
\*   tokenize_proto -> ProtoParser.parse -> transform_proto  (the tokenizer pipeline)
\*   parse_proto_file                                         (the line based parser)
\* A run takes one of the two.  The file is
\*     message I { int32 v = 1; }        (when f_sibling)
\*     message O { the items of f_decls, one per line }
\* ------------------------------------------------------------------------
MaxItems == 2

w_I == <<"I">>
w_N == <<"N">>
w_O == <<"O">>
eq == <<" ", "=", " ">>

\* an item of a message body; type_name, field_name and is_repeated are
\* those of a field declaration
Item(kind, type_name, field_name, is_repeated, txt) ==
    [kind |-> kind, type_name |-> type_name, field_name |-> field_name,
     is_repeated |-> is_repeated, text |-> txt]

\* [repeated] <type> <name> = <number>;
field_item(type_name, field_name, number, is_repeated) ==
    Item("field", type_name, field_name, is_repeated,
         (IF is_repeated THEN w_repeated \o sp ELSE <<>>)
           \o type_name \o sp \o field_name \o eq \o number \o <<";">>)

other_item(kind, txt) == Item(kind, <<>>, <<>>, FALSE, txt)

\* message N {\n  int32 w = 1;\n  message M {\n   int32 u = 1;\n  }\n }
nested_message_text ==
    w_message \o sp \o w_N \o sp \o <<"{">> \o nl
      \o sp \o w_int32 \o sp \o <<"w">> \o eq \o <<"1", ";">> \o nl
      \o sp \o w_message \o sp \o <<"M">> \o sp \o <<"{">> \o nl
      \o sp \o w_int32 \o sp \o <<"u">> \o eq \o <<"1", ";">> \o nl
      \o sp \o <<"}">> \o nl
      \o sp \o <<"}">>

\* message N { int32 w = 1; }
one_line_message_text ==
    w_message \o sp \o w_N \o sp \o <<"{">> \o sp
      \o w_int32 \o sp \o <<"w">> \o eq \o <<"1", ";">> \o sp \o <<"}">>

ProtoFieldItems ==
    { field_item(w_int32, <<"a">>, <<"1">>, FALSE),      \* int32 a = 1;
      field_item(w_string, <<"b">>, <<"2">>, TRUE),      \* repeated string b = 2;
      field_item(w_I, <<"d">>, <<"3">>, FALSE),          \* I d = 3;
      field_item(w_N, <<"e">>, <<"4">>, TRUE) }          \* repeated N e = 4;

ProtoOtherItems ==
    { other_item("comment", <<"/", "/", " ">> \o w_int32 \o sp \o <<"x">> \o eq
                              \o <<"9", ";">>),          \* // int32 x = 9;
      other_item("blank", <<>>),
      other_item("option", w_option \o sp \o <<"o">> \o eq \o <<"1", ";">>),
      other_item("reserved", w_reserved \o sp \o <<"2", ";">>),
      other_item("nested", nested_message_text),
      other_item("nested one line", one_line_message_text) }

ProtoItemPool == ProtoFieldItems \cup ProtoOtherItems

\* the items of a body, each on a line (or lines) of its own
RECURSIVE items_text(_)
items_text(items) ==
    IF items = <<>> THEN <<>>
    ELSE sp \o Head(items).text \o nl \o items_text(Tail(items))

\* message I {\n int32 v = 1;\n}
sibling_message_text ==
    w_message \o sp \o w_I \o sp \o <<"{">> \o nl
      \o sp \o w_int32 \o sp \o <<"v">> \o eq \o <<"1", ";">> \o nl \o <<"}">> \o nl

ProtoFileText(items, sibling) ==
    (IF sibling THEN sibling_message_text ELSE <<>>)
      \o w_message \o sp \o w_O \o sp \o <<"{">> \o nl
      \o items_text(items) \o <<"}">> \o nl

ProtoItemLists == UNION {[1..m -> ProtoItemPool] : m \in 0..MaxItems}

InitProto ==
    /\ IdleMatch /\ IdleNorm /\ IdleCpp /\ IdleAlias /\ IdleRun /\ IdleRep /\ IdleParse
    /\ f_decls \in ProtoItemLists
    /\ f_sibling \in BOOLEAN
    /\ t_lang = "proto"
    /\ text = ProtoFileText(f_decls, f_sibling)
    /\ t_i = 0
    /\ line = 1
    /\ col = 1
    /\ tokens = <<>>
    /\ tpc = "scan"
    /\ p_ast = None
    /\ p_tok_messages = None
    /\ p_re_messages = None

\* one round of the while loop of tokenize_proto
TokStepProto ==
    /\ t_lang = "proto"
    /\ \/ Whitespace
       \/ Newline
       \/ LineComment
       \/ BlockComment
       \/ ProtoSingleChar
       \/ ProtoStringLit
       \/ Number
       \/ Identifier
       \/ OtherChar

\* ast = ProtoParser(tokens).parse()
ParseProto ==
    /\ t_lang = "proto"
    /\ tpc = "returned"
    /\ p_ast = None
    /\ p_ast' = Some(proto_parse)
    /\ UNCHANGED <<p_tok_messages, p_re_messages>>

\* messages = transform_proto(ast, source_file); a raised ProtoParseError has
\* left the caller before this line
TransformProto ==
    /\ p_ast # None
    /\ ~Val(p_ast).err
    /\ p_tok_messages = None
    /\ p_tok_messages' = Some(transform_proto(Val(p_ast)))
    /\ UNCHANGED <<p_ast, p_re_messages>>

\* messages = parse_proto_file(file_path), the file holding `text`
ParseProtoFile ==
    /\ t_lang = "proto"
    /\ tpc = "scan" /\ t_i = 0
    /\ p_re_messages = None
    /\ p_re_messages' = Some(parse_proto_file(text))
    /\ UNCHANGED <<p_ast, p_tok_messages>>

NextProto ==
    \/ TokStepProto /\ p_re_messages = None /\ UNCHANGED notTokVars
    \/ ReturnTokens /\ p_re_messages = None /\ UNCHANGED notTokVars
    \/ ParseProto /\ UNCHANGED notProtoVars
    \/ TransformProto /\ UNCHANGED notProtoVars
    \/ ParseProtoFile /\ UNCHANGED notProtoVars

SpecProto == InitProto /\ [][NextProto]_vars

\* the field declarations among the items of a body, in their order
RECURSIVE field_decls(_)
field_decls(items) ==
    IF items = <<>> THEN <<>>
    ELSE (IF Head(items).kind = "field" THEN <<Head(items)>> ELSE <<>>)
         \o field_decls(Tail(items))

\* the Message of the record O in a returned list
RecordO(messages) ==
    messages[CHOOSE k \in DOMAIN messages : messages[k].original_name = w_O]

\* C11: transform_proto gives every field is_nested = TRUE exactly when its
\* type_name is none of the 15 primitive names -- whether the type is defined
\* inside the message (N after a nested definition), elsewhere in the file
\* (I with the sibling), or nowhere -- and copies is_repeated from the
\* `repeated` modifier of the declaration.
C11_IsNestedIffNotPrimitive ==
    p_tok_messages # None =>
        /\ \A k \in DOMAIN Val(p_tok_messages) :
             \A j \in DOMAIN Val(p_tok_messages)[k].fields :
                Val(p_tok_messages)[k].fields[j].is_nested
                  <=> Val(p_tok_messages)[k].fields[j].type_name \notin PROTO_PRIMITIVES
        /\ Len(RecordO(Val(p_tok_messages)).fields) = Len(field_decls(f_decls))
        /\ \A j \in DOMAIN field_decls(f_decls) :
             /\ RecordO(Val(p_tok_messages)).fields[j].type_name
                  = field_decls(f_decls)[j].type_name
             /\ RecordO(Val(p_tok_messages)).fields[j].is_repeated
                  = field_decls(f_decls)[j].is_repeated
             /\ RecordO(Val(p_tok_messages)).fields[j].is_nested
                  = (field_decls(f_decls)[j].type_name \notin {w_int32, w_string})

\* transform_proto on `I d = 3;` and `repeated N e = 4;` next to a top-level
\* message I and with no N anywhere: both fields are nested, none is linked
C11_Witness ==
    /\ p_tok_messages # None
    /\ f_sibling
    /\ Len(f_decls) = 2
    /\ f_decls[1].type_name = w_I
    /\ f_decls[2].type_name = w_N
    /\ RecordO(Val(p_tok_messages)).fields[1].is_nested
    /\ RecordO(Val(p_tok_messages)).fields[1].nested_type = None
    /\ RecordO(Val(p_tok_messages)).fields[2].is_nested
    /\ RecordO(Val(p_tok_messages)).fields[2].is_repeated
    /\ RecordO(Val(p_tok_messages)).fields[2].nested_type = None

\* C12: parse_proto_file gives a field whose type is a message defined at the
\* top level of the same file, not inside the containing message (I d = 3;
\* next to message I), is_nested = TRUE and nested_type = None, and gives
\* every field of a primitive type is_nested = FALSE.
C12_TopLevelReferenceIsNested ==
    p_re_messages # None =>
        \A j \in DOMAIN RecordO(Val(p_re_messages)).fields :
            /\ (f_sibling /\ RecordO(Val(p_re_messages)).fields[j].type_name = w_I)
                 => /\ RecordO(Val(p_re_messages)).fields[j].is_nested
                    /\ RecordO(Val(p_re_messages)).fields[j].nested_type = None
            /\ RecordO(Val(p_re_messages)).fields[j].type_name \in PROTO_PRIMITIVES
                 => ~RecordO(Val(p_re_messages)).fields[j].is_nested

\* ------------------------------------------------------------------------
\* The C++ pipelines on a header written from the items of a struct body:
\*     struct I { int v; };              (when f_sibling)
\*     struct O { the items of f_decls, one per line };
\* ------------------------------------------------------------------------
w_Pos == <<"P","o","s">>
w_pos == <<"p","o","s">>

\* <type> <name>; or <type> <name>[<size>];
cpp_field_item(type_name, field_name, size, is_repeated) ==
    Item("field", type_name, field_name, is_repeated,
         type_name \o sp \o field_name
           \o (IF size = None THEN <<>> ELSE <<"[">> \o Val(size) \o <<"]">>)
           \o <<";">>)

\* struct {\n  int q;\n } pos;
anonymous_struct_text ==
    w_struct \o sp \o <<"{">> \o nl
      \o sp \o w_int \o sp \o <<"q", ";">> \o nl
      \o sp \o <<"}">> \o sp \o w_pos \o <<";">>

\* struct N {\n  int w;\n  struct M {\n  int u;\n  };\n };
nested_struct_text ==
    w_struct \o sp \o w_N \o sp \o <<"{">> \o nl
      \o sp \o w_int \o sp \o <<"w", ";">> \o nl
      \o sp \o w_struct \o sp \o <<"M">> \o sp \o <<"{">> \o nl
      \o sp \o w_int \o sp \o <<"u", ";">> \o nl
      \o sp \o <<"}", ";">> \o nl
      \o sp \o <<"}", ";">>

\* struct N { int w; };
one_line_struct_text ==
    w_struct \o sp \o w_N \o sp \o <<"{">> \o sp
      \o w_int \o sp \o <<"w", ";">> \o sp \o <<"}", ";">>

CppFieldItems ==
    { cpp_field_item(w_int, <<"a">>, None, FALSE),               \* int a;
      cpp_field_item(w_char, <<"b">>, Some(<<"8">>), FALSE),     \* char b[8];
      cpp_field_item(w_N, <<"e">>, Some(<<"4">>), TRUE),         \* N e[4];
      Item("anonymous", w_Pos, w_pos, FALSE, anonymous_struct_text) }

CppOtherItems ==
    { other_item("comment", <<"/", "/", " ">> \o w_int \o sp \o <<"x", ";">>),
      other_item("block comment",
                 <<"/", "*", " ">> \o w_int \o sp \o <<"y", ";", " ", "*", "/">>),
      other_item("blank", <<>>),
      other_item("access", w_public \o <<":">>),
      other_item("nested", nested_struct_text),
      other_item("nested one line", one_line_struct_text) }

CppItemPool == CppFieldItems \cup CppOtherItems

\* struct I {\n int v;\n};
sibling_struct_text ==
    w_struct \o sp \o w_I \o sp \o <<"{">> \o nl
      \o sp \o w_int \o sp \o <<"v", ";">> \o nl \o <<"}", ";">> \o nl

CppBodyFileText(items, sibling) ==
    (IF sibling THEN sibling_struct_text ELSE <<>>)
      \o w_struct \o sp \o w_O \o sp \o <<"{">> \o nl
      \o items_text(items) \o <<"}", ";">> \o nl

CppItemLists == UNION {[1..m -> CppItemPool] : m \in 0..MaxItems}

InitCppBody ==
    /\ IdleMatch /\ IdleNorm /\ IdleAlias /\ IdleProto /\ IdleRun /\ IdleRep /\ IdleParse
    /\ f_decls \in CppItemLists
    /\ f_sibling \in BOOLEAN
    /\ t_lang = "cpp"
    /\ text = CppBodyFileText(f_decls, f_sibling)
    /\ t_i = 0
    /\ line = 1
    /\ col = 1
    /\ tokens = <<>>
    /\ tpc = "scan"
    /\ ast = None
    /\ tok_messages = None
    /\ re_messages = None

\* a file of either language through the pipelines of its language
InitFiles == InitProto \/ InitCppBody
NextFiles == NextProto \/ NextCpp
SpecFiles == InitFiles /\ [][NextFiles]_vars

\* the items of a body that declare a field, in their order
RECURSIVE declared_fields(_)
declared_fields(items) ==
    IF items = <<>> THEN <<>>
    ELSE (IF Head(items).kind \in {"field", "anonymous"} THEN <<Head(items)>> ELSE <<>>)
         \o declared_fields(Tail(items))

\* the fields of record O are those the items declare: as many, in their
\* order, with their names
FieldsAsDeclared(messages) ==
    /\ Len(RecordO(messages).fields) = Len(declared_fields(f_decls))
    /\ \A j \in DOMAIN declared_fields(f_decls) :
          RecordO(messages).fields[j].original_name
            = declared_fields(f_decls)[j].field_name

\* C13: a record body of K well-formed field declarations interleaved with
\* comments, blank lines, access specifiers (C++) or option and reserved
\* statements (proto) and nested record definitions: the parse does not
\* raise, and the transformed record has exactly the K declared fields, in
\* declaration order.
C13_FieldCount ==
    /\ p_ast # None => ~Val(p_ast).err
    /\ ast # None => ~Val(ast).err
    /\ p_tok_messages # None => FieldsAsDeclared(Val(p_tok_messages))
    /\ tok_messages # None => FieldsAsDeclared(Val(tok_messages))

\* transform_proto gave O one field for `int32 a = 1;` followed by
\* `option o = 1;`
C13_Witness ==
    /\ p_tok_messages # None
    /\ Len(f_decls) = 2
    /\ f_decls[1].kind = "field"
    /\ f_decls[2].kind = "option"
    /\ Len(RecordO(Val(p_tok_messages)).fields) = 1

\* ------------------------------------------------------------------------
\* The whole pipeline on one .proto file and one header, as main.run chains
\* it: the proto file is parsed, then the header, then match_messages runs
\* on the two lists.  Each file goes through the tokenizer pipeline or
\* through the line based parser.
\* The files are those of tests/test_integration.py in small: a message O
\* with a field e of type N, and a struct O with a field e of type N.
\* ------------------------------------------------------------------------
w_a_b == <<"a", "_", "b">>
w_aB == <<"a", "B">>
w_e == <<"e">>

\* message N {\n int32 w = 1;\n}, indented by `indent`
inner_message_text(indent) ==
    indent \o w_message \o sp \o w_N \o sp \o <<"{">> \o nl
      \o indent \o sp \o w_int32 \o sp \o <<"w">> \o eq \o <<"1", ";">> \o nl
      \o indent \o <<"}">> \o nl

\* the .proto file: where N is defined ("inside" O, at "top" level,
\* "nowhere"), whether e is repeated, whether O has the field a_b
RunProtoFile(where, is_repeated, extra) ==
    (IF where = "top" THEN inner_message_text(<<>>) ELSE <<>>)
      \o w_message \o sp \o w_O \o sp \o <<"{">> \o nl
      \o (IF extra THEN sp \o w_int32 \o sp \o w_a_b \o eq \o <<"1", ";">> \o nl
          ELSE <<>>)
      \o sp \o (IF is_repeated THEN w_repeated \o sp ELSE <<>>)
      \o w_N \o sp \o w_e \o eq \o <<"4", ";">> \o nl
      \o (IF where = "inside" THEN inner_message_text(sp) ELSE <<>>)
      \o <<"}">> \o nl

\* struct N {\n int w;\n};, indented by `indent`
inner_struct_text(indent) ==
    indent \o w_struct \o sp \o w_N \o sp \o <<"{">> \o nl
      \o indent \o sp \o w_int \o sp \o <<"w", ";">> \o nl
      \o indent \o <<"}", ";">> \o nl

\* the header: where N is defined ("before" O, "after" O, "inside" O,
\* "nowhere"), the shape of e ("array", "plain", "missing"), whether O has
\* the field aB
RunCppFile(where, shape, extra) ==
    (IF where = "before" THEN inner_struct_text(<<>>) ELSE <<>>)
      \o w_struct \o sp \o w_O \o sp \o <<"{">> \o nl
      \o (IF where = "inside" THEN inner_struct_text(sp) ELSE <<>>)
      \o (IF extra THEN sp \o w_int \o sp \o w_aB \o <<";">> \o nl ELSE <<>>)
      \o (IF shape = "missing" THEN <<>>
          ELSE sp \o w_N \o sp \o w_e
                 \o (IF shape = "array" THEN <<"[", "4", "]">> ELSE <<>>)
                 \o <<";">> \o nl)
      \o <<"}", ";">> \o nl
      \o (IF where = "after" THEN inner_struct_text(<<>>) ELSE <<>>)

w_msgHeader == <<"m","s","g","H","e","a","d","e","r">>
w_msg_header == <<"m","s","g","_","h","e","a","d","e","r">>
w_retCode == <<"r","e","t","C","o","d","e">>
w_msgOwnId == <<"m","s","g","O","w","n","I","d">>
w_RepO == <<"R","e","p","O">>

\* the files of TestRepMessagePipeline in small:
\*   message msgHeader {\n int32 retCode = 1;\n string msgOwnId = 2;\n int32 w = 3;\n}
\*   message RepO {\n msgHeader msg_header = 1;\n int32 a_b = 2;\n}
RepProtoFile ==
    w_message \o sp \o w_msgHeader \o sp \o <<"{">> \o nl
      \o sp \o w_int32 \o sp \o w_retCode \o eq \o <<"1", ";">> \o nl
      \o sp \o w_string \o sp \o w_msgOwnId \o eq \o <<"2", ";">> \o nl
      \o sp \o w_int32 \o sp \o <<"w">> \o eq \o <<"3", ";">> \o nl
      \o <<"}">> \o nl
      \o w_message \o sp \o w_RepO \o sp \o <<"{">> \o nl
      \o sp \o w_msgHeader \o sp \o w_msg_header \o eq \o <<"1", ";">> \o nl
      \o sp \o w_int32 \o sp \o w_a_b \o eq \o <<"2", ";">> \o nl
      \o <<"}">> \o nl

\*   struct RepO {\n int aB;\n};
RepCppFile ==
    w_struct \o sp \o w_RepO \o sp \o <<"{">> \o nl
      \o sp \o w_int \o sp \o w_aB \o <<";">> \o nl
      \o <<"}", ";">> \o nl

RunProtoFiles ==
    {RunProtoFile(where, is_repeated, extra) :
        where \in {"inside", "top", "nowhere"}, is_repeated \in BOOLEAN,
        extra \in BOOLEAN}
      \cup {RepProtoFile}

RunCppFiles ==
    {RunCppFile(where, shape, extra) :
        where \in {"before", "after", "inside", "nowhere"},
        shape \in {"array", "plain", "missing"}, extra \in BOOLEAN}
      \cup {RepCppFile}

InitRun ==
    /\ IdleNorm /\ IdleAlias /\ IdleFile /\ IdleMatch /\ IdleCpp /\ IdleProto /\ IdleRep /\ IdleParse
    /\ proto_file \in RunProtoFiles
    /\ cpp_file \in RunCppFiles
    /\ rpc = "proto"
    /\ t_lang = "proto"
    /\ text = proto_file
    /\ t_i = 0
    /\ line = 1
    /\ col = 1
    /\ tokens = <<>>
    /\ tpc = "scan"

\* the list a file's parse returned
all_proto_messages ==
    IF p_tok_messages # None THEN Val(p_tok_messages) ELSE Val(p_re_messages)
parsed_cpp_messages ==
    IF tok_messages # None THEN Val(tok_messages) ELSE Val(re_messages)

\* The matcher writes to the Fields of the C++ Messages, so its list holds
\* each nested_type as the position of the Message object it refers to.  The
\* object is a later Message of the same parse; the Messages of a parsed
\* header differ in value here, so the value names the object.
reference_to(messages, m) ==
    IF m = None THEN None
    ELSE Some(CHOOSE k \in DOMAIN messages : messages[k] = Val(m))

all_cpp_messages ==
    [k \in DOMAIN parsed_cpp_messages |->
        [parsed_cpp_messages[k] EXCEPT !.fields =
            [j \in DOMAIN parsed_cpp_messages[k].fields |->
                [parsed_cpp_messages[k].fields[j] EXCEPT !.nested_type =
                    reference_to(parsed_cpp_messages, @)]]]]

\* the proto file is parsed: the header is read next
ReadCpp ==
    /\ rpc = "proto"
    /\ p_tok_messages # None \/ p_re_messages # None
    /\ rpc' = "cpp"
    /\ t_lang' = "cpp"
    /\ text' = cpp_file
    /\ t_i' = 0
    /\ line' = 1
    /\ col' = 1
    /\ tokens' = <<>>
    /\ tpc' = "scan"
    /\ UNCHANGED <<proto_file, cpp_file>>
    /\ UNCHANGED <<matchVars, normVars, cppVars, aliasVars, protoVars, fileVars, repVars, parseVars>>

\* all_matches = match_messages(all_proto_messages, all_cpp_messages)
CallMatch ==
    /\ rpc = "cpp"
    /\ tok_messages # None \/ re_messages # None
    /\ rpc' = "match"
    /\ proto_messages' = all_proto_messages
    /\ cpp_messages' = all_cpp_messages
    /\ mpc' = "loop"
    /\ UNCHANGED <<matches, mappings, mi, fi, result, proto_file, cpp_file>>
    /\ UNCHANGED <<normVars, tokVars, cppVars, aliasVars, protoVars, fileVars, repVars, parseVars>>

\* `except MatchError as e: ...; sys.exit(1)`
ExitOnMatchError ==
    /\ rpc = "match"
    /\ mpc = "raised"
    /\ rpc' = "exit 1"
    /\ UNCHANGED <<proto_file, cpp_file>>
    /\ UNCHANGED <<matchVars, normVars, tokVars, cppVars, aliasVars, protoVars, fileVars, repVars, parseVars>>

\* `if not all_matches: ...; sys.exit(0)`
ExitNoMatches ==
    /\ rpc = "match"
    /\ mpc = "returned"
    /\ Val(result) = <<>>
    /\ rpc' = "exit 0"
    /\ UNCHANGED <<proto_file, cpp_file>>
    /\ UNCHANGED <<matchVars, normVars, tokVars, cppVars, aliasVars, protoVars, fileVars, repVars, parseVars>>

\* steps 4 and 5 of run: the DTOs and the mappers are generated from
\* all_matches, which they leave as match_messages returned it
Generate ==
    /\ rpc = "match"
    /\ mpc = "returned"
    /\ Val(result) # <<>>
    /\ rpc' = "done"
    /\ UNCHANGED <<proto_file, cpp_file>>
    /\ UNCHANGED <<matchVars, normVars, tokVars, cppVars, aliasVars, protoVars, fileVars, repVars, parseVars>>

NextRun ==
    \/ NextProto
    \/ ReadCpp
    \/ NextCpp
    \/ CallMatch
    \/ NextMatch
    \/ ExitOnMatchError
    \/ ExitNoMatches
    \/ Generate

SpecRun == InitRun /\ [][NextRun]_vars

\* the position of the match of the proto message `name` in the returned
\* list, 0 without one
match_of(name) ==
    IF \E k \in DOMAIN Val(result) :
          proto_messages[Val(result)[k].proto_message].original_name = name
    THEN CHOOSE k \in DOMAIN Val(result) :
            proto_messages[Val(result)[k].proto_message].original_name = name
    ELSE 0

\* the mapping of the proto field `name` in a match, the match has one
mapping_of(match, name) ==
    match.field_mappings[
        CHOOSE k \in DOMAIN match.field_mappings :
            proto_messages[match.field_mappings[k].proto_field[1]]
                .fields[match.field_mappings[k].proto_field[2]].original_name = name]

\* the Field objects of a mapping
proto_side(mapping) ==
    proto_messages[mapping.proto_field[1]].fields[mapping.proto_field[2]]
cpp_side(mapping) ==
    cpp_messages[mapping.cpp_field[1]].fields[mapping.cpp_field[2]]

\* the scenario of C14: e is repeated and of a type nested in O, the header
\* declares N as a top-level struct of its own and e as an array of it
OrderInfoScenario ==
    /\ \E extra \in BOOLEAN : proto_file = RunProtoFile("inside", TRUE, extra)
    /\ \E where \in {"before", "after"}, extra \in BOOLEAN :
          cpp_file = RunCppFile(where, "array", extra)

\* C14: end to end, in the OrderInfo/OrderItem scenario, match_messages does
\* not raise unless the header lacks the field aB of a_b; the returned list
\* holds one match for the outer record O and one for the inner record N and
\* no other; the mapping of e is repeated and nested on both sides, and the
\* nested_type of its C++ field is the C++ Message that the match of N
\* carries as cpp_message.
C14_EndToEndNestedRepeated ==
    OrderInfoScenario =>
        /\ mpc = "raised" =>
              /\ \E is_repeated \in BOOLEAN :
                    proto_file = RunProtoFile("inside", is_repeated, TRUE)
              /\ \E where \in {"before", "after"} :
                    cpp_file = RunCppFile(where, "array", FALSE)
        /\ mpc = "returned" =>
              /\ Len(Val(result)) = 2
              /\ match_of(w_O) # 0
              /\ match_of(w_N) # 0
              /\ match_of(w_O) # match_of(w_N)
              /\ cpp_messages[Val(result)[match_of(w_O)].cpp_message].original_name
                    = w_O
              /\ cpp_messages[Val(result)[match_of(w_N)].cpp_message].original_name
                    = w_N
              /\ proto_side(mapping_of(Val(result)[match_of(w_O)], w_e)).is_repeated
              /\ proto_side(mapping_of(Val(result)[match_of(w_O)], w_e)).is_nested
              /\ cpp_side(mapping_of(Val(result)[match_of(w_O)], w_e)).is_repeated
              /\ cpp_side(mapping_of(Val(result)[match_of(w_O)], w_e)).is_nested
              /\ cpp_side(mapping_of(Val(result)[match_of(w_O)], w_e)).nested_type
                    = Some(Val(result)[match_of(w_N)].cpp_message)

\* the scenario ran through the tokenizer pipelines and match_messages
\* returned its two matches
C14_Witness ==
    /\ OrderInfoScenario
    /\ p_tok_messages # None
    /\ tok_messages # None
    /\ mpc = "returned"
    /\ Len(Val(result)) = 2
    /\ cpp_side(mapping_of(Val(result)[match_of(w_O)], w_e)).nested_type # None

w_WebServiceReplyHeader ==
    <<"W","e","b","S","e","r","v","i","c","e","R","e","p","l","y","H","e","a","d","e","r">>
w_returnCode == <<"r","e","t","u","r","n","C","o","d","e">>
w_returnMessage == <<"r","e","t","u","r","n","M","e","s","s","a","g","e">>

\* the scenario of C15: a Rep message with a msgHeader field, and a struct
\* of its name without a field for the header
RepScenario == proto_file = RepProtoFile /\ cpp_file = RepCppFile

\* the names of the C++ fields of a match, in the order of its mappings
mapped_cpp_names(match) ==
    [k \in DOMAIN match.field_mappings |->
        cpp_side(match.field_mappings[k]).original_name]

\* C15: in run(), the msgHeader field is stripped from the Rep message before
\* match_messages runs, and the msgHeader definition is kept out of the
\* matching; match_messages does not raise MatchError; when run() is done,
\* the match of RepO starts with a mapping to a field msgHeader of type
\* WebServiceReplyHeader, there is a match to WebServiceReplyHeader with the
\* fields returnCode and returnMessage only, and no match for msgHeader.
C15_RepPipeline ==
    RepScenario =>
        /\ rpc = "match" =>
              \A k \in DOMAIN proto_messages :
                 /\ normalize(proto_messages[k].original_name) # normalize(w_msgHeader)
                 /\ \A j \in DOMAIN proto_messages[k].fields :
                       normalize(proto_messages[k].fields[j].type_name)
                         # normalize(w_msgHeader)
        /\ mpc # "raised"
        /\ rpc # "exit 1"
        /\ rpc = "done" =>
              /\ match_of(w_RepO) # 0
              /\ match_of(w_msgHeader) = 0
              /\ cpp_side(Val(result)[match_of(w_RepO)].field_mappings[1]).type_name
                    = w_WebServiceReplyHeader
              /\ Val(result)[match_of(w_RepO)].field_mappings[1].is_reply_header
              /\ \E k \in DOMAIN Val(result) :
                    /\ cpp_messages[Val(result)[k].cpp_message].original_name
                          = w_WebServiceReplyHeader
                    /\ mapped_cpp_names(Val(result)[k])
                          = <<w_returnCode, w_returnMessage>>


\* ------------------------------------------------------------------------
\* rep_message_handler: the msgHeader field of the Rep messages
\* ------------------------------------------------------------------------
MaxRepFields == 2

MSG_HEADER_TYPE_NAME == w_msgHeader
WEB_SERVICE_REPLY_HEADER_CLASS == w_WebServiceReplyHeader

\* HEADER_FIELD_RENAMES, a dict, as its items
HEADER_FIELD_RENAMES ==
    <<<<w_retCode, w_returnCode>>, <<w_msgOwnId, w_returnMessage>>>>

\* `name in HEADER_FIELD_RENAMES`
in_header_field_renames(name) ==
    \E kk \in DOMAIN HEADER_FIELD_RENAMES : HEADER_FIELD_RENAMES[kk][1] = name

\* `HEADER_FIELD_RENAMES[name]`
header_field_rename(name) ==
    HEADER_FIELD_RENAMES[
        CHOOSE kk \in DOMAIN HEADER_FIELD_RENAMES : HEADER_FIELD_RENAMES[kk][1] = name][2]

\* str.lower() on one character
lower_char(c) ==
    IF IsUpper(c) THEN LowerCase[CHOOSE i \in 1..26 : UpperCase[i] = c] ELSE c

\* str.capitalize(): the first character upper-cased, the others lower-cased
capitalize(s) ==
    [i \in 1..Len(s) |-> IF i = 1 THEN upper_char(s[i]) ELSE lower_char(s[i])]

\* name.split("_"), from position i on, `part` being the part read so far
RECURSIVE split_underscore(_, _, _)
split_underscore(s, i, part) ==
    IF i > Len(s) THEN <<part>>
    ELSE IF s[i] = "_" THEN <<part>> \o split_underscore(s, i + 1, <<>>)
    ELSE split_underscore(s, i + 1, Append(part, s[i]))

\* mutant of snake_to_camel: the parts are joined as they are
snake_to_camel_joined(name) == remove_underscores(name)

\* _snake_to_camel
snake_to_camel(name) ==
    CHOOSE v \in {parts[1] \o Flatten([i \in 1..(Len(parts) - 1) |-> capitalize(parts[i + 1])]) :
                    parts \in {split_underscore(name, 1, <<>>)}} : TRUE

\* mutant of is_rep_message: every message counts as a Rep message
is_rep_message_always(proto_message) == TRUE

\* is_rep_message
is_rep_message(proto_message) == startswith(proto_message.original_name, <<"R","e","p">>)

\* the condition of the loop of find_msg_header_field
is_msg_header_field(field) ==
    field.is_nested /\ normalize(field.type_name) = normalize(MSG_HEADER_TYPE_NAME)

\* find_msg_header_field: the position of the field it returns, 0 for None
find_msg_header_field(proto_message) ==
    IF \E j \in DOMAIN proto_message.fields : is_msg_header_field(proto_message.fields[j])
    THEN CHOOSE j \in DOMAIN proto_message.fields :
            /\ is_msg_header_field(proto_message.fields[j])
            /\ \A j1 \in 1..(j - 1) : ~is_msg_header_field(proto_message.fields[j1])
    ELSE 0

\* `[f for f in msg.fields if f is not header_field]`: the fields are
\* distinct objects, so that the one at position j goes and no other
without_field(fields, j) ==
    SubSeq(fields, 1, j - 1) \o SubSeq(fields, j + 1, Len(fields))

\* whether the body of the loop of strip_msg_header_fields changes msg
has_header_to_strip(msg) ==
    is_rep_message(msg) /\ find_msg_header_field(msg) # 0

\* one message after the loop of strip_msg_header_fields
strip_message(msg) ==
    IF has_header_to_strip(msg)
    THEN [msg EXCEPT !.fields = without_field(msg.fields, find_msg_header_field(msg))]
    ELSE msg

\* `d[key] = value` on a dict
dict_set(d, key, value) ==
    [x \in DOMAIN d \cup {key} |-> IF x = key THEN value ELSE d[x]]

\* the dict `stripped` after the loop of strip_msg_header_fields has come
\* to position nn of the list
RECURSIVE stripped_upto(_, _)
stripped_upto(proto_msgs, nn) ==
    IF nn = 0 THEN <<>>
    ELSE IF has_header_to_strip(proto_msgs[nn])
    THEN dict_set(stripped_upto(proto_msgs, nn - 1), proto_msgs[nn].original_name,
                  proto_msgs[nn].fields[find_msg_header_field(proto_msgs[nn])])
    ELSE stripped_upto(proto_msgs, nn - 1)

\* strip_msg_header_fields: <<the list, the dict>>
strip_msg_header_fields(proto_msgs) ==
    <<[nn \in DOMAIN proto_msgs |-> strip_message(proto_msgs[nn])],
      stripped_upto(proto_msgs, Len(proto_msgs))>>

is_msg_header_message(msg) ==
    normalize(msg.original_name) = normalize(MSG_HEADER_TYPE_NAME)

\* resolve_msg_header_definition
resolve_msg_header_definition(proto_msgs) ==
    IF \E nn \in DOMAIN proto_msgs : is_msg_header_message(proto_msgs[nn])
    THEN Some(proto_msgs[CHOOSE nn \in DOMAIN proto_msgs :
                 /\ is_msg_header_message(proto_msgs[nn])
                 /\ \A nn1 \in 1..(nn - 1) : ~is_msg_header_message(proto_msgs[nn1])])
    ELSE None

\* remove_msg_header_message
RECURSIVE remove_msg_header_message(_)
remove_msg_header_message(proto_msgs) ==
    IF proto_msgs = <<>> THEN <<>>
    ELSE IF is_msg_header_message(Head(proto_msgs))
    THEN remove_msg_header_message(Tail(proto_msgs))
    ELSE <<Head(proto_msgs)>> \o remove_msg_header_message(Tail(proto_msgs))

\* mutant of renamed_field: the field keeps the name of the proto field
unrenamed_field(header_field) ==
    Field(header_field.original_name, header_field.type_name,
          header_field.is_repeated, header_field.is_nested, None)

\* the cpp_field build_web_service_reply_header_match makes for one field
renamed_field(header_field) ==
    Field(header_field_rename(header_field.original_name), header_field.type_name,
          header_field.is_repeated, header_field.is_nested, None)

\* the fields of the definition that pass `original_name not in
\* HEADER_FIELD_RENAMES: continue`
RECURSIVE renamed_header_fields(_)
renamed_header_fields(fields) ==
    IF fields = <<>> THEN <<>>
    ELSE IF in_header_field_renames(Head(fields).original_name)
    THEN <<Head(fields)>> \o renamed_header_fields(Tail(fields))
    ELSE renamed_header_fields(Tail(fields))

\* a FieldMapping of rep_message_handler: its fields are the Field objects
HeaderFieldMapping(header_field, cpp_field_made, is_reply_header) ==
    [proto_field |-> header_field, cpp_field |-> cpp_field_made,
     is_reply_header |-> is_reply_header]

\* build_web_service_reply_header_match
build_web_service_reply_header_match(msg_header_definition) ==
    CHOOSE v \in
      {MessageMatch(msg_header_definition,
                    Message(WEB_SERVICE_REPLY_HEADER_CLASS,
                            [i \in DOMAIN kept |-> renamed_field(kept[i])]),
                    [i \in DOMAIN kept |->
                        HeaderFieldMapping(kept[i], renamed_field(kept[i]), FALSE)]) :
         kept \in {renamed_header_fields(msg_header_definition.fields)}} : TRUE

\* `original_header_field.nested_type = msg_header_def`, under its condition
link_header_field(header_field, header_def) ==
    IF header_field.nested_type = None /\ header_def # None
    THEN [header_field EXCEPT !.nested_type = header_def]
    ELSE header_field

\* the name of synthetic_cpp_field
reply_header_field_name(field_name) ==
    IF \E i \in DOMAIN field_name : field_name[i] = "_"
    THEN snake_to_camel(field_name)
    ELSE field_name

\* synthetic_cpp_field of inject_header_field_mappings
synthetic_cpp_field(header_field) ==
    [original_name |-> reply_header_field_name(header_field.original_name),
     normalized_name |-> header_field.normalized_name,
     type_name |-> WEB_SERVICE_REPLY_HEADER_CLASS,
     is_repeated |-> FALSE, is_nested |-> TRUE, nested_type |-> None]

\* mutant of inject_mapping: the mapping is appended
inject_mapping_last(match, stripped, header_def) ==
    IF match.proto_message.original_name \in DOMAIN stripped
    THEN [match EXCEPT !.field_mappings =
            Append(@, HeaderFieldMapping(
                link_header_field(stripped[match.proto_message.original_name], header_def),
                synthetic_cpp_field(stripped[match.proto_message.original_name]),
                TRUE))]
    ELSE match

\* the body of the loop of inject_header_field_mappings on one match
inject_mapping(match, stripped, header_def) ==
    IF match.proto_message.original_name \in DOMAIN stripped
    THEN [match EXCEPT !.field_mappings =
            <<HeaderFieldMapping(
                link_header_field(stripped[match.proto_message.original_name], header_def),
                synthetic_cpp_field(stripped[match.proto_message.original_name]),
                TRUE)>> \o @]
    ELSE match

\* inject_header_field_mappings: the list it returns
inject_header_field_mappings(match_list, stripped, header_def) ==
    [nn \in DOMAIN match_list |-> inject_mapping(match_list[nn], stripped, header_def)]

\* the dict stripped_fields after inject_header_field_mappings: the removed
\* Field objects of the matches it went through have their nested_type linked
stripped_after_inject(match_list, stripped, header_def) ==
    [x \in DOMAIN stripped |->
        IF \E nn \in DOMAIN match_list : match_list[nn].proto_message.original_name = x
        THEN link_header_field(stripped[x], header_def)
        ELSE stripped[x]]


\* ------------------------------------------------------------------------
\* The calls of rep_message_handler on a list of proto messages, in the
\* order its docstrings give: strip before the matching, inject after it
\* ------------------------------------------------------------------------
w_Msg_Header == <<"M","s","g","_","H","e","a","d","e","r">>
w_hdr == <<"h","d","r">>
w_reply_msg_hdr == <<"r","e","p","l","y","_","m","s","g","_","h","d","r">>
w_replyMsgHdr == <<"r","e","p","l","y","M","s","g","H","d","r">>
w_RepP == <<"R","e","p","P">>

\*   msgHeader msg_header    a reference to a top-level message, not linked
\*   Msg_Header reply_msg_hdr   a reference to a message nested in the owner
\*   msgHeader hdr           as the line-based parser leaves it: is_nested False
\*   int32 a_b
RepFieldPool ==
    {Field(w_msg_header, w_msgHeader, FALSE, TRUE, None),
     Field(w_reply_msg_hdr, w_Msg_Header, FALSE, TRUE,
           Some(Message(w_Msg_Header, <<Field(w_retCode, w_int32, FALSE, FALSE, None)>>))),
     Field(w_hdr, w_msgHeader, FALSE, FALSE, None),
     Field(w_a_b, w_int32, FALSE, FALSE, None)}

RepFieldLists(len) == UNION {[1..l -> RepFieldPool] : l \in 0..len}

\* the field lists of the msgHeader definition
HeaderDefFields ==
    {<<>>,
     <<Field(<<"w">>, w_int32, FALSE, FALSE, None)>>,
     <<Field(w_msgOwnId, w_string, FALSE, FALSE, None)>>,
     <<Field(w_retCode, w_int32, FALSE, FALSE, None),
       Field(w_msgOwnId, w_string, FALSE, FALSE, None),
       Field(<<"w">>, w_int32, FALSE, FALSE, None)>>,
     <<Field(w_returnCode, w_int32, FALSE, FALSE, None),
       Field(w_msgOwnId, w_string, TRUE, FALSE, None),
       Field(w_retCode, w_string, FALSE, FALSE, None)>>}

\* the lists of proto messages: a msgHeader definition or none, then two
\* messages
RepMessageLists ==
    {header_defs \o <<Message(name1, fields1), Message(name2, fields2)>> :
        header_defs \in {<<>>} \cup {<<Message(w_msgHeader, fs)>> : fs \in HeaderDefFields},
        name1 \in {w_RepO, w_O}, fields1 \in RepFieldLists(MaxRepFields),
        name2 \in {w_RepO, w_RepP, w_O}, fields2 \in RepFieldLists(1)}

InitRep ==
    /\ h_given \in RepMessageLists
    /\ h_messages = h_given
    /\ stripped_fields = <<>>
    /\ msg_header_def = None
    /\ h_matches_given = <<>>
    /\ h_matches = <<>>
    /\ header_match = None
    /\ hpc = "start"
    /\ IdleMatch /\ IdleNorm /\ IdleTok /\ IdleCpp /\ IdleAlias /\ IdleProto
    /\ IdleFile /\ IdleRun /\ IdleParse

\* `proto_messages, stripped = strip_msg_header_fields(proto_messages)`
StripMsgHeaderFields ==
    /\ hpc = "start"
    /\ h_messages' = strip_msg_header_fields(h_messages)[1]
    /\ stripped_fields' = strip_msg_header_fields(h_messages)[2]
    /\ hpc' = "stripped"
    /\ UNCHANGED <<h_given, msg_header_def, h_matches_given, h_matches, header_match>>
    /\ UNCHANGED notRepVars

ResolveMsgHeaderDefinition ==
    /\ hpc = "stripped"
    /\ msg_header_def' = resolve_msg_header_definition(h_messages)
    /\ hpc' = "resolved"
    /\ UNCHANGED <<h_given, h_messages, stripped_fields, h_matches_given, h_matches,
                   header_match>>
    /\ UNCHANGED notRepVars

RemoveMsgHeaderMessage ==
    /\ hpc = "resolved"
    /\ h_messages' = remove_msg_header_message(h_messages)
    /\ hpc' = "removed"
    /\ UNCHANGED <<h_given, stripped_fields, msg_header_def, h_matches_given, h_matches,
                   header_match>>
    /\ UNCHANGED notRepVars

\* the match of a proto message with a struct of its name and of its fields
match_of_message(msg) ==
    MessageMatch(msg,
                 Message(msg.original_name,
                         [j \in DOMAIN msg.fields |-> [msg.fields[j] EXCEPT !.nested_type = None]]),
                 [j \in DOMAIN msg.fields |->
                     HeaderFieldMapping(msg.fields[j],
                                        [msg.fields[j] EXCEPT !.nested_type = None], FALSE)])

RECURSIVE matches_of_messages(_, _, _)
matches_of_messages(proto_msgs, nn, matched) ==
    IF nn > Len(proto_msgs) THEN <<>>
    ELSE IF nn \in matched
    THEN <<match_of_message(proto_msgs[nn])>> \o matches_of_messages(proto_msgs, nn + 1, matched)
    ELSE matches_of_messages(proto_msgs, nn + 1, matched)

\* the generic matching between the two calls: the messages at the
\* positions `matched` have a struct of their name, the others have none
MatchedMessages ==
    /\ hpc = "removed"
    /\ \E matched \in SUBSET DOMAIN h_messages :
          /\ h_matches' = matches_of_messages(h_messages, 1, matched)
          /\ h_matches_given' = h_matches'
    /\ hpc' = "matched"
    /\ UNCHANGED <<h_given, h_messages, stripped_fields, msg_header_def, header_match>>
    /\ UNCHANGED notRepVars

\* `inject_header_field_mappings(matches, stripped, msg_header_def)`
InjectHeaderFieldMappings ==
    /\ hpc = "matched"
    /\ h_matches' = inject_header_field_mappings(h_matches, stripped_fields, msg_header_def)
    /\ stripped_fields' = stripped_after_inject(h_matches, stripped_fields, msg_header_def)
    /\ hpc' = "injected"
    /\ UNCHANGED <<h_given, h_messages, msg_header_def, h_matches_given, header_match>>
    /\ UNCHANGED notRepVars

\* `build_web_service_reply_header_match(msg_header_def)`, which needs a definition
BuildWebServiceReplyHeaderMatch ==
    /\ hpc = "injected"
    /\ msg_header_def # None
    /\ header_match' = Some(build_web_service_reply_header_match(Val(msg_header_def)))
    /\ hpc' = "built"
    /\ UNCHANGED <<h_given, h_messages, stripped_fields, msg_header_def, h_matches_given,
                   h_matches>>
    /\ UNCHANGED notRepVars

NextRep ==
    \/ StripMsgHeaderFields
    \/ ResolveMsgHeaderDefinition
    \/ RemoveMsgHeaderMessage
    \/ MatchedMessages
    \/ InjectHeaderFieldMappings
    \/ BuildWebServiceReplyHeaderMatch

SpecRep == InitRep /\ [][NextRep]_vars

\* strip_msg_header_fields has been called on h_given
Stripped == hpc \notin {"idle", "start"}

\* whether some field of the list is a nested field of the msgHeader type
HasHeaderField(fields) ==
    \E j \in DOMAIN fields :
        /\ fields[j].is_nested
        /\ normalize(fields[j].type_name) = <<"M","S","G","H","E","A","D","E","R">>

\* the first such field of the list
FirstHeaderField(fields) ==
    CHOOSE j \in DOMAIN fields :
        /\ fields[j].is_nested
        /\ normalize(fields[j].type_name) = <<"M","S","G","H","E","A","D","E","R">>
        /\ \A j1 \in 1..(j - 1) :
              ~(fields[j1].is_nested
                /\ normalize(fields[j1].type_name) = <<"M","S","G","H","E","A","D","E","R">>)

IsRepName(name) == Len(name) >= 3 /\ SubSeq(name, 1, 3) = <<"R","e","p">>

\* the last message of h_given of that name that has a header field
LastStrippedOfName(name) ==
    CHOOSE g \in DOMAIN h_given :
        /\ h_given[g].original_name = name /\ HasHeaderField(h_given[g].fields)
        /\ \A g1 \in (g + 1)..Len(h_given) :
              ~(h_given[g1].original_name = name /\ HasHeaderField(h_given[g1].fields))

\* C16: strip_msg_header_fields changes only the messages whose name starts
\* with "Rep": from such a message it removes one field, the first nested one
\* of the msgHeader type, keeps the others in order and records the removed
\* field under the name of the message; a message not prefixed Rep and a Rep
\* message without such a field keep their fields and get no entry.
C16_StripOnlyRepHeaders ==
    hpc = "stripped" =>
        /\ Len(h_messages) = Len(h_given)
        /\ \A g \in DOMAIN h_given :
              /\ h_messages[g].original_name = h_given[g].original_name
              /\ IF IsRepName(h_given[g].original_name) /\ HasHeaderField(h_given[g].fields)
                 THEN /\ Len(h_messages[g].fields) = Len(h_given[g].fields) - 1
                      /\ \A j \in DOMAIN h_messages[g].fields :
                            h_messages[g].fields[j] =
                               h_given[g].fields[
                                  IF j < FirstHeaderField(h_given[g].fields) THEN j ELSE j + 1]
                      /\ h_given[g].original_name \in DOMAIN stripped_fields
                 ELSE h_messages[g] = h_given[g]
        /\ \A name \in DOMAIN stripped_fields :
              /\ \E g \in DOMAIN h_given :
                    /\ h_given[g].original_name = name
                    /\ IsRepName(name)
                    /\ HasHeaderField(h_given[g].fields)
              /\ stripped_fields[name] =
                    h_given[LastStrippedOfName(name)].fields[
                        FirstHeaderField(h_given[LastStrippedOfName(name)].fields)]

\* a Rep message of two fields was stripped of its header field, next to a
\* message that is not a Rep message and kept its header field
C16_Witness ==
    /\ hpc = "stripped"
    /\ \E g \in DOMAIN h_given :
          /\ IsRepName(h_given[g].original_name)
          /\ Len(h_given[g].fields) = 2
          /\ HasHeaderField(h_given[g].fields)
          /\ Len(h_messages[g].fields) = 1
          /\ h_given[g].original_name \in DOMAIN stripped_fields
    /\ \E g \in DOMAIN h_given :
          /\ ~IsRepName(h_given[g].original_name)
          /\ HasHeaderField(h_given[g].fields)
          /\ h_messages[g] = h_given[g]


\* the field strip_msg_header_fields removed and recorded under `name`
RemovedField(name) ==
    h_given[LastStrippedOfName(name)].fields[
        FirstHeaderField(h_given[LastStrippedOfName(name)].fields)]

\* the camelCase spelling of the snake_case names of RepFieldPool
CamelCase(name) ==
    IF name = w_msg_header THEN w_msgHeader
    ELSE IF name = w_reply_msg_hdr THEN w_replyMsgHdr
    ELSE name

\* C17: inject_header_field_mappings inserts, for every match whose proto
\* message name is a key of stripped_fields, exactly one mapping at index 0:
\* is_reply_header true, proto_field the removed field (nested_type set to
\* the msgHeader definition when it was None and a definition exists),
\* cpp_field a new field of type WebServiceReplyHeader, nested, not repeated,
\* named by the camelCase form of the removed field's name; the mappings
\* already there keep their order, and a match whose proto name is not a
\* key is unchanged.
C17_InjectAtFront ==
    hpc = "injected" =>
        /\ Len(h_matches) = Len(h_matches_given)
        /\ \A nn \in DOMAIN h_matches_given :
              IF h_matches_given[nn].proto_message.original_name \in DOMAIN stripped_fields
              THEN /\ h_matches[nn].proto_message = h_matches_given[nn].proto_message
                   /\ h_matches[nn].cpp_message = h_matches_given[nn].cpp_message
                   /\ Tail(h_matches[nn].field_mappings) = h_matches_given[nn].field_mappings
                   /\ \A j \in 2..Len(h_matches[nn].field_mappings) :
                         ~h_matches[nn].field_mappings[j].is_reply_header
                   /\ Head(h_matches[nn].field_mappings).is_reply_header
                   /\ Head(h_matches[nn].field_mappings).proto_field =
                         IF RemovedField(h_matches[nn].proto_message.original_name).nested_type = None
                            /\ msg_header_def # None
                         THEN [RemovedField(h_matches[nn].proto_message.original_name)
                                  EXCEPT !.nested_type = msg_header_def]
                         ELSE RemovedField(h_matches[nn].proto_message.original_name)
                   /\ Head(h_matches[nn].field_mappings).cpp_field.type_name
                         = w_WebServiceReplyHeader
                   /\ Head(h_matches[nn].field_mappings).cpp_field.is_nested
                   /\ ~Head(h_matches[nn].field_mappings).cpp_field.is_repeated
                   /\ Head(h_matches[nn].field_mappings).cpp_field.original_name =
                         CamelCase(RemovedField(h_matches[nn].proto_message.original_name).original_name)
              ELSE h_matches[nn] = h_matches_given[nn]

\* two matches went through the injection: one of a Rep message whose
\* snake_case header field got the definition as nested_type and came in
\* front of a mapping that was there, and one of a message without an entry
C17_Witness ==
    /\ hpc = "injected"
    /\ msg_header_def # None
    /\ \E nn \in DOMAIN h_matches :
          /\ h_matches[nn].proto_message.original_name \in DOMAIN stripped_fields
          /\ Len(h_matches[nn].field_mappings) = 2
          /\ Head(h_matches[nn].field_mappings).proto_field.original_name = w_msg_header
          /\ Head(h_matches[nn].field_mappings).proto_field.nested_type = msg_header_def
          /\ Head(h_matches[nn].field_mappings).cpp_field.original_name = w_msgHeader
    /\ \E nn \in DOMAIN h_matches :
          /\ h_matches[nn].proto_message.original_name \notin DOMAIN stripped_fields
          /\ h_matches[nn].field_mappings # <<>>

\* C18: build_web_service_reply_header_match returns a match whose
\* cpp_message is named WebServiceReplyHeader and whose field_mappings hold
\* exactly the fields of the msgHeader definition whose original_name is
\* retCode or msgOwnId, in definition order, each paired with a new C++ field
\* of the renamed name (returnCode, returnMessage) and of the proto field's
\* type_name; every other field of the definition is absent from the
\* field_mappings and from cpp_message.fields.
C18_ReplyHeaderMatch ==
    hpc = "built" =>
        /\ Val(header_match).proto_message = Val(msg_header_def)
        /\ Val(header_match).cpp_message.original_name = w_WebServiceReplyHeader
        /\ Len(Val(header_match).cpp_message.fields) = Len(Val(header_match).field_mappings)
        /\ \A j \in DOMAIN Val(header_match).field_mappings :
              /\ Val(header_match).field_mappings[j].proto_field.original_name
                    \in {w_retCode, w_msgOwnId}
              /\ Val(header_match).field_mappings[j].cpp_field.original_name =
                    IF Val(header_match).field_mappings[j].proto_field.original_name = w_retCode
                    THEN w_returnCode ELSE w_returnMessage
              /\ Val(header_match).field_mappings[j].cpp_field.type_name =
                    Val(header_match).field_mappings[j].proto_field.type_name
              /\ Val(header_match).cpp_message.fields[j] =
                    Val(header_match).field_mappings[j].cpp_field
        \* the proto fields of the mappings are the retCode and msgOwnId
        \* fields of the definition, in its order, with nothing left out
        /\ \E pos \in [DOMAIN Val(header_match).field_mappings -> DOMAIN Val(msg_header_def).fields] :
              /\ \A j \in DOMAIN pos :
                    /\ Val(header_match).field_mappings[j].proto_field
                          = Val(msg_header_def).fields[pos[j]]
                    /\ \A j1 \in DOMAIN pos : j1 < j => pos[j1] < pos[j]
              /\ \A d \in DOMAIN Val(msg_header_def).fields :
                    Val(msg_header_def).fields[d].original_name \in {w_retCode, w_msgOwnId}
                       => \E j \in DOMAIN pos : pos[j] = d

\* the match was built from a definition that has msgOwnId before retCode
\* and a field outside the rename table
C18_Witness ==
    /\ hpc = "built"
    /\ Len(Val(msg_header_def).fields) = 3
    /\ Len(Val(header_match).field_mappings) = 2
    /\ Val(header_match).field_mappings[1].cpp_field.original_name = w_returnMessage
    /\ Val(header_match).field_mappings[2].cpp_field.original_name = w_returnCode


\* ------------------------------------------------------------------------
\* Anonymous struct fields and the order of the entities
\* ------------------------------------------------------------------------
\* the list holds an entity Pos, normalized POS, with the field q of the
\* anonymous body
HasSyntheticPos(messages) ==
    \E k \in DOMAIN messages :
        /\ messages[k].original_name = w_Pos
        /\ messages[k].normalized_name = <<"P","O","S">>
        /\ Len(messages[k].fields) = 1
        /\ messages[k].fields[1].original_name = <<"q">>

\* the field is the owner of the anonymous struct: named pos, of type Pos,
\* nested
IsOwnerOfPos(field) ==
    /\ field.original_name = w_pos
    /\ field.type_name = w_Pos
    /\ field.is_nested

\* C19: for an anonymous inline struct used as a field, `struct { int q; } pos;`,
\* transform_cpp emits a synthetic entity whose original_name is the field
\* name with its first character upper-cased (Pos) and whose normalized_name
\* is normalize of that name (POS); the owning field has that name as
\* type_name and is_nested true; the entity is part of the output list.
\* The line-based parser names the field and the entity in the same way
\* wherever it takes the declaration as a field.
C19_AnonymousStructEntity ==
    /\ (t_lang = "cpp" /\ tok_messages # None) =>
          /\ \A j \in DOMAIN declared_fields(f_decls) :
                declared_fields(f_decls)[j].kind = "anonymous"
                   => IsOwnerOfPos(RecordO(Val(tok_messages)).fields[j])
          /\ (\E j \in DOMAIN f_decls : f_decls[j].kind = "anonymous")
                => HasSyntheticPos(Val(tok_messages))
    /\ (t_lang = "cpp" /\ re_messages # None) =>
          \A j \in DOMAIN RecordO(Val(re_messages)).fields :
             RecordO(Val(re_messages)).fields[j].original_name = w_pos
                => /\ IsOwnerOfPos(RecordO(Val(re_messages)).fields[j])
                   /\ HasSyntheticPos(Val(re_messages))

\* transform_cpp returned the entities of a struct O whose body is a nested
\* struct N followed by the anonymous struct field pos
C19_Witness ==
    /\ t_lang = "cpp"
    /\ tok_messages # None
    /\ Len(f_decls) = 2
    /\ f_decls[1].kind = "nested"
    /\ f_decls[2].kind = "anonymous"
    /\ IsOwnerOfPos(RecordO(Val(tok_messages)).fields[1])
    /\ HasSyntheticPos(Val(tok_messages))


\* the names of the entities of a list, in its order
entity_names(messages) == [k \in DOMAIN messages |-> messages[k].original_name]

\* the records defined by the nested definitions of a body, each followed
\* by the record defined inside it: N then M for the definition of N that
\* holds M, N alone for the one-line definition
RECURSIVE nested_record_names(_)
nested_record_names(items) ==
    IF items = <<>> THEN <<>>
    ELSE (IF Head(items).kind = "nested" THEN <<w_N, <<"M">>>>
          ELSE IF Head(items).kind = "nested one line" THEN <<w_N>>
          ELSE <<>>)
         \o nested_record_names(Tail(items))

\* the synthetic records of the anonymous struct fields of a body
RECURSIVE anonymous_record_names(_)
anonymous_record_names(items) ==
    IF items = <<>> THEN <<>>
    ELSE (IF Head(items).kind = "anonymous" THEN <<w_Pos>> ELSE <<>>)
         \o anonymous_record_names(Tail(items))

\* the flat depth-first order of the file: the top-level records I and O in
\* file order, O at once followed by the records nested in it, each of these
\* at once followed by the records nested in itself
DepthFirstNames ==
    (IF f_sibling THEN <<w_I>> ELSE <<>>)
      \o <<w_O>> \o nested_record_names(f_decls) \o anonymous_record_names(f_decls)

\* C20: transform_cpp and transform_proto return a flat list in which every
\* record is immediately followed by the entities of all the records nested
\* in it, recursively, before the next record of its level: a parent comes
\* before each of its descendants and the top-level records keep their file
\* order.
C20_DepthFirstOrder ==
    /\ p_tok_messages # None => entity_names(Val(p_tok_messages)) = DepthFirstNames
    /\ tok_messages # None => entity_names(Val(tok_messages)) = DepthFirstNames

\* transform_cpp returned I, O, N, M, N for a file that defines I, then O
\* with the two nested definitions of N in its body
C20_Witness ==
    /\ tok_messages # None
    /\ f_sibling
    /\ Len(f_decls) = 2
    /\ f_decls[1].kind = "nested"
    /\ f_decls[2].kind = "nested one line"
    /\ entity_names(Val(tok_messages)) = <<w_I, w_O, w_N, <<"M">>, w_N>>


\* ------------------------------------------------------------------------
\* Forward declarations and elaborated uses of a struct name
\* ------------------------------------------------------------------------
w_Foo == <<"F","o","o">>
w_bar == <<"b","a","r">>

\* struct Foo;
forward_declaration_text == w_struct \o sp \o w_Foo \o <<";">>

\* struct Foo bar;
elaborated_use_text == w_struct \o sp \o w_Foo \o sp \o w_bar \o <<";">>

\* <declaration>\nstruct O {\n int a;\n};
ForwardTopFile(declaration) ==
    declaration \o nl
      \o w_struct \o sp \o w_O \o sp \o <<"{">> \o nl
      \o sp \o w_int \o sp \o <<"a", ";">> \o nl
      \o <<"}", ";">> \o nl

\* struct O {\n <declaration>\n int a;\n};
ForwardInsideFile(declaration) ==
    w_struct \o sp \o w_O \o sp \o <<"{">> \o nl
      \o sp \o declaration \o nl
      \o sp \o w_int \o sp \o <<"a", ";">> \o nl
      \o <<"}", ";">> \o nl

ForwardFiles ==
    {ForwardTopFile(forward_declaration_text), ForwardTopFile(elaborated_use_text),
     ForwardInsideFile(forward_declaration_text), ForwardInsideFile(elaborated_use_text)}

InitForward ==
    /\ IdleMatch /\ IdleNorm /\ IdleAlias /\ IdleProto /\ IdleRun /\ IdleRep /\ IdleParse
    /\ f_decls = <<>>
    /\ f_sibling = FALSE
    /\ t_lang = "cpp"
    /\ text \in ForwardFiles
    /\ t_i = 0
    /\ line = 1
    /\ col = 1
    /\ tokens = <<>>
    /\ tpc = "scan"
    /\ ast = None
    /\ tok_messages = None
    /\ re_messages = None

\* the files of SpecFiles and the files with a struct name without a body
InitDeclared == InitFiles \/ InitForward
SpecDeclared == InitDeclared /\ [][NextFiles]_vars

\* whether a CppStruct of that name is among the structs or nested in them
RECURSIVE HasStructNamed(_, _)
HasStructNamed(structs, name) ==
    \E k \in DOMAIN structs :
        \/ structs[k].name = Some(name)
        \/ HasStructNamed(structs[k].nested_structs, name)

\* C21: a forward declaration or an elaborated use of a struct name without
\* a body (`struct Foo;`, `struct Foo bar;`), at top level or inside the
\* body of another struct, produces no CppStruct and no entity named Foo in
\* the output of transform_cpp.
C21_ForwardDeclarationDropped ==
    text \in ForwardFiles =>
        /\ (ast # None /\ ~Val(ast).err) => ~HasStructNamed(Val(ast).structs, w_Foo)
        /\ tok_messages # None =>
              \A k \in DOMAIN Val(tok_messages) :
                 Val(tok_messages)[k].original_name # w_Foo


\* ------------------------------------------------------------------------
\* The positions of the tokens
\* ------------------------------------------------------------------------
\* the number of newline characters among the first s characters of text
NewlinesBefore(s) == Cardinality({j \in 1..s : text[j] = "\n"})

\* the number of characters up to the last newline among the first s
\* characters, which is the offset of the first character of that line
LineStart(s) ==
    IF \E j \in 1..s : text[j] = "\n"
    THEN CHOOSE j \in 1..s : text[j] = "\n" /\ \A j1 \in (j + 1)..s : text[j1] # "\n"
    ELSE 0

\* the token begins at offset s of text (s characters come before it): its
\* literal is there, and its line and col are those of offset s
TokenBeginsAt(token, s) ==
    /\ token.line = 1 + NewlinesBefore(s)
    /\ token.col = s - LineStart(s) + 1
    /\ IF token.type = "EOF" THEN s = n
       ELSE IF token.type = "STRING_LIT"
       THEN /\ s < n /\ text[s + 1] = "\""
            /\ s + 1 + Len(token.value) <= n
            /\ SubSeq(text, s + 2, s + 1 + Len(token.value)) = token.value
       ELSE /\ s + Len(token.value) <= n
            /\ SubSeq(text, s + 1, s + Len(token.value)) = token.value

\* C22: every token of tokenize_cpp and of tokenize_proto, EOF included,
\* carries the exact 1-based line and column of its first character in the
\* source: every newline consumed, wherever it occurs (whitespace, block
\* comment, string literal, end of a line comment or of a preprocessor line),
\* adds one to line and resets the column to 1.
C22_ExactPositions ==
    \A k \in DOMAIN tokens : \E s \in 0..n : TokenBeginsAt(tokens[k], s)


\* ------------------------------------------------------------------------
\* Comments and preprocessor lines
\* ------------------------------------------------------------------------
\* the 1-based position of the first newline of txt at or after position i,
\* Len(txt) + 1 when there is none
RECURSIVE end_of_line(_, _)
end_of_line(txt, i) ==
    IF i > Len(txt) \/ txt[i] = "\n" THEN i ELSE end_of_line(txt, i + 1)

\* the position after the `*/` that closes a block comment whose body
\* begins at position i, Len(txt) + 1 when nothing closes it
RECURSIVE end_of_block(_, _)
end_of_block(txt, i) ==
    IF i > Len(txt) THEN i
    ELSE IF txt[i] = "*" /\ i < Len(txt) /\ txt[i + 1] = "/" THEN i + 2
    ELSE end_of_block(txt, i + 1)

\* the position of the quote that closes a string literal whose body
\* begins at position i, Len(txt) + 1 when nothing closes it; a backslash
\* escapes the character after it
RECURSIVE string_close(_, _)
string_close(txt, i) ==
    IF i > Len(txt) THEN Len(txt) + 1
    ELSE IF txt[i] = "\"" THEN i
    ELSE IF txt[i] = "\\" THEN string_close(txt, i + 2)
    ELSE string_close(txt, i + 1)

\* the position after the string literal whose body begins at position i
end_of_string(txt, i) ==
    IF string_close(txt, i) <= Len(txt) THEN string_close(txt, i) + 1 ELSE Len(txt) + 1

Blanks(len) == [j \in 1..len |-> " "]

\* txt from position i on, every comment and (C++) every preprocessor line
\* replaced by as many blanks; a string literal (proto) is kept as it is
RECURSIVE blanked(_, _, _)
blanked(txt, lang, i) ==
    IF i > Len(txt) THEN <<>>
    ELSE IF txt[i] = "/" /\ i < Len(txt) /\ txt[i + 1] = "/"
    THEN Blanks(end_of_line(txt, i) - i) \o blanked(txt, lang, end_of_line(txt, i))
    ELSE IF txt[i] = "/" /\ i < Len(txt) /\ txt[i + 1] = "*"
    THEN Blanks(end_of_block(txt, i + 2) - i) \o blanked(txt, lang, end_of_block(txt, i + 2))
    ELSE IF lang = "cpp" /\ txt[i] = "#"
    THEN Blanks(end_of_line(txt, i) - i) \o blanked(txt, lang, end_of_line(txt, i))
    ELSE IF lang = "proto" /\ txt[i] = "\""
    THEN SubSeq(txt, i, end_of_string(txt, i + 1) - 1)
           \o blanked(txt, lang, end_of_string(txt, i + 1))
    ELSE <<txt[i]>> \o blanked(txt, lang, i + 1)

\* the position after the digits that begin at position i
RECURSIVE end_of_digits(_, _)
end_of_digits(txt, i) ==
    IF i <= Len(txt) /\ IsDigit(txt[i]) THEN end_of_digits(txt, i + 1) ELSE i

\* the position after the word that begins at position i
RECURSIVE end_of_word(_, _)
end_of_word(txt, i) ==
    IF i <= Len(txt) /\ (IsAlnum(txt[i]) \/ txt[i] = "_") THEN end_of_word(txt, i + 1) ELSE i

\* a token by its kind and its literal text
Lexeme(type, value) == <<type, value>>

\* the kinds and literal texts of the tokens of a text without comments and
\* preprocessor lines, from position i on: blanks and unknown characters
\* give nothing, then EOF
RECURSIVE lexemes(_, _, _)
lexemes(txt, lang, i) ==
    IF i > Len(txt) THEN <<Lexeme("EOF", <<>>)>>
    ELSE IF txt[i] \in {" ", "\t", "\r", "\n"} THEN lexemes(txt, lang, i + 1)
    ELSE IF lang = "cpp" /\ txt[i] = ":" /\ i < Len(txt) /\ txt[i + 1] = ":"
    THEN <<Lexeme("COLONCOLON", <<":", ":">>)>> \o lexemes(txt, lang, i + 2)
    ELSE IF lang = "cpp" /\ txt[i] = ":"
    THEN <<Lexeme("COLON", <<":">>)>> \o lexemes(txt, lang, i + 1)
    ELSE IF lang = "cpp" /\ cpp_single(txt[i]) # "NONE"
    THEN <<Lexeme(cpp_single(txt[i]), <<txt[i]>>)>> \o lexemes(txt, lang, i + 1)
    ELSE IF lang = "proto" /\ proto_single(txt[i]) # "NONE"
    THEN <<Lexeme(proto_single(txt[i]), <<txt[i]>>)>> \o lexemes(txt, lang, i + 1)
    ELSE IF lang = "proto" /\ txt[i] = "\""
    THEN <<Lexeme("STRING_LIT", SubSeq(txt, i + 1, string_close(txt, i + 1) - 1))>>
           \o lexemes(txt, lang, end_of_string(txt, i + 1))
    ELSE IF IsDigit(txt[i])
    THEN <<Lexeme("NUMBER", SubSeq(txt, i, end_of_digits(txt, i) - 1))>>
           \o lexemes(txt, lang, end_of_digits(txt, i))
    ELSE IF IsAlpha(txt[i]) \/ txt[i] = "_"
    THEN <<Lexeme(IF lang = "cpp"
                  THEN cpp_keyword(SubSeq(txt, i, end_of_word(txt, i) - 1))
                  ELSE proto_keyword(SubSeq(txt, i, end_of_word(txt, i) - 1)),
                  SubSeq(txt, i, end_of_word(txt, i) - 1))>>
           \o lexemes(txt, lang, end_of_word(txt, i))
    ELSE lexemes(txt, lang, i + 1)

\* the kinds and literal texts of the tokens tokenize_cpp or tokenize_proto
\* returned
token_lexemes == [k \in DOMAIN tokens |-> Lexeme(tokens[k].type, tokens[k].value)]

\* whether text holds a comment or (C++) a preprocessor line
HasComment == blanked(text, t_lang, 1) # text

\* C23: comments (`//` to the end of the line, `/* ... */`) in both lexers
\* and preprocessor lines (`#` to the end of the line) in the C++ lexer
\* produce no tokens: the kinds and the literal texts of the tokens are those
\* of the source with every comment and directive replaced by blanks,
\* whatever the comment holds.
C23_CommentsGiveNoTokens ==
    tpc = "returned" => token_lexemes = lexemes(blanked(text, t_lang, 1), t_lang, 1)

\* tokenize_cpp returned EOF alone for `/*{*/`: the brace inside the comment
\* gave no token
C23_Witness ==
    /\ tpc = "returned"
    /\ t_lang = "cpp"
    /\ text = <<"/", "*", "{", "*", "/">>
    /\ token_lexemes = <<Lexeme("EOF", <<>>)>>


\* ------------------------------------------------------------------------
\* Fields that name a record nested deeper than their own record
\* ------------------------------------------------------------------------
\* struct N {\n  int w;\n  struct <inner> {\n  int u;\n  };\n };
deep_struct_text(inner) ==
    w_struct \o sp \o w_N \o sp \o <<"{">> \o nl
      \o sp \o w_int \o sp \o <<"w", ";">> \o nl
      \o sp \o w_struct \o sp \o inner \o sp \o <<"{">> \o nl
      \o sp \o w_int \o sp \o <<"u", ";">> \o nl
      \o sp \o <<"}", ";">> \o nl
      \o sp \o <<"}", ";">>

\* message N {\n  int32 w = 1;\n  message <inner> {\n   int32 u = 1;\n  }\n }
deep_message_text(inner) ==
    w_message \o sp \o w_N \o sp \o <<"{">> \o nl
      \o sp \o w_int32 \o sp \o <<"w">> \o eq \o <<"1", ";">> \o nl
      \o sp \o w_message \o sp \o inner \o sp \o <<"{">> \o nl
      \o sp \o w_int32 \o sp \o <<"u">> \o eq \o <<"1", ";">> \o nl
      \o sp \o <<"}">> \o nl
      \o sp \o <<"}">>

\* the body of O: the definition of N, which holds a record <inner>, then a
\* field g of type <inner>
DeepCppItems(inner) ==
    <<other_item("nested", deep_struct_text(inner)),
      cpp_field_item(inner, <<"g">>, None, FALSE)>>

DeepProtoItems(inner) ==
    <<other_item("nested", deep_message_text(inner)),
      field_item(inner, <<"g">>, <<"4">>, FALSE)>>

InitDeepCpp ==
    /\ IdleMatch /\ IdleNorm /\ IdleAlias /\ IdleProto /\ IdleRun /\ IdleRep /\ IdleParse
    /\ f_decls \in {DeepCppItems(<<"M">>), DeepCppItems(w_N)}
    /\ f_sibling = FALSE
    /\ t_lang = "cpp"
    /\ text = CppBodyFileText(f_decls, f_sibling)
    /\ t_i = 0
    /\ line = 1
    /\ col = 1
    /\ tokens = <<>>
    /\ tpc = "scan"
    /\ ast = None
    /\ tok_messages = None
    /\ re_messages = None

InitDeepProto ==
    /\ IdleMatch /\ IdleNorm /\ IdleAlias /\ IdleCpp /\ IdleRun /\ IdleRep /\ IdleParse
    /\ f_decls \in {DeepProtoItems(<<"M">>), DeepProtoItems(w_N)}
    /\ f_sibling = FALSE
    /\ t_lang = "proto"
    /\ text = ProtoFileText(f_decls, f_sibling)
    /\ t_i = 0
    /\ line = 1
    /\ col = 1
    /\ tokens = <<>>
    /\ tpc = "scan"
    /\ p_ast = None
    /\ p_tok_messages = None
    /\ p_re_messages = None

\* the files of SpecFiles and the files whose O names a record of the
\* second level
InitDeep == InitFiles \/ InitDeepCpp \/ InitDeepProto
SpecDeep == InitDeep /\ [][NextFiles]_vars

\* a record defined directly in the body of O: N, whose first field is w
\* (the N and the M inside N hold u), or the synthetic Pos
DirectChildOfO(message) ==
    \/ /\ message.original_name = w_N
       /\ message.fields # <<>>
       /\ message.fields[1].original_name = <<"w">>
    \/ message.original_name = w_Pos

\* every nested_type of a field of O is a direct child of O of the name
\* that is the field's type_name
LinkedToDirectChildren(messages) ==
    \A j \in DOMAIN RecordO(messages).fields :
        RecordO(messages).fields[j].nested_type # None =>
            /\ Val(RecordO(messages).fields[j].nested_type).original_name
                  = RecordO(messages).fields[j].type_name
            /\ DirectChildOfO(Val(RecordO(messages).fields[j].nested_type))

\* C24: in both transformers the nested_type of a field is attached only to
\* an entity defined directly inside the same record (a named nested record
\* or an anonymous-synthetic one), chosen by equality of the field's
\* type_name with the entity's original_name; never to a deeper descendant,
\* also when a deeper descendant has the name of a direct child.
C24_LinkedToDirectChildrenOnly ==
    /\ tok_messages # None => LinkedToDirectChildren(Val(tok_messages))
    /\ p_tok_messages # None => LinkedToDirectChildren(Val(p_tok_messages))


\* ------------------------------------------------------------------------
\* The writes of nested_type over one run
\* ------------------------------------------------------------------------
\* the pass of `for proto_field in proto_msg.fields` that comes next executes
\* `cpp_field.nested_type = nested_cpp`
AssignsNestedType ==
    /\ mpc = "fields"
    /\ fi <= Len(proto_msg.fields)
    /\ ~RaiseGuard
    /\ proto_field.is_nested
    /\ nested_cpp(proto_field) # None

\* the C++ Field the next pass pairs
paired_cpp_field == cpp_messages[Val(cpp_msg)].fields[Val(cpp_field)]

\* C25: over one run the nested_type of each Field is assigned at most once.
\* Every assignment stores a Message, and a Field that was never assigned
\* holds None, so the matcher only ever assigns to a Field whose nested_type
\* is still None: one that no transformer linked and that no earlier pass of
\* the matcher assigned.
C25_AssignedAtMostOnce ==
    AssignsNestedType => paired_cpp_field.nested_type = None


\* ------------------------------------------------------------------------
\* C++ entities of the same normalized name
\* ------------------------------------------------------------------------
\* the positions of the C++ entities of a normalized name, and the last one
CppPositionsNamed(norm) ==
    {k \in DOMAIN cpp_messages : cpp_messages[k].normalized_name = norm}
LastCppNamed(norm) ==
    CHOOSE k \in CppPositionsNamed(norm) : \A k2 \in CppPositionsNamed(norm) : k2 <= k

\* the normalized name the nested-type lookup of a proto field goes by
lookup_name(pf) ==
    IF pf.nested_type # None THEN Val(pf.nested_type).normalized_name
    ELSE normalize(pf.type_name)

\* the proto field and the C++ field of a mapping
mapped_proto_field(fm) == proto_messages[fm.proto_field[1]].fields[fm.proto_field[2]]
mapped_cpp_field(fm) == cpp_messages[fm.cpp_field[1]].fields[fm.cpp_field[2]]

\* a mapping of a nested proto field whose lookup finds an entity leaves the
\* C++ field linked to the last entity of the looked-up name
LinkedToLast(fm) ==
    (/\ mapped_proto_field(fm).is_nested
     /\ CppPositionsNamed(lookup_name(mapped_proto_field(fm))) # {})
    => mapped_cpp_field(fm).nested_type =
          Some(LastCppNamed(lookup_name(mapped_proto_field(fm))))

\* C26: when several C++ entities have the same normalized name, every proto
\* message of that name is paired with the last of them in list order (none
\* is skipped, each match holds the last), the nested-type lookup of a field
\* just paired resolved to the last entity of the looked-up name, and a
\* MatchError is only raised for a field the last entity does not have.
C26_LastDuplicateWins ==
    /\ \A k \in DOMAIN matches :
          matches[k].cpp_message =
             LastCppNamed(proto_messages[matches[k].proto_message].normalized_name)
    /\ \A k \in 1..(mi - 1) :
          k <= Len(proto_messages) /\ CppPositionsNamed(proto_messages[k].normalized_name) # {}
             => \E j \in DOMAIN matches : matches[j].proto_message = k
    /\ (mpc = "fields" /\ mappings # <<>>) =>
          /\ mappings[Len(mappings)].cpp_field[1] = LastCppNamed(proto_msg.normalized_name)
          /\ LinkedToLast(mappings[Len(mappings)])
    /\ mpc = "raised" =>
          \A j \in DOMAIN cpp_messages[LastCppNamed(proto_msg.normalized_name)].fields :
             cpp_messages[LastCppNamed(proto_msg.normalized_name)].fields[j].normalized_name
                # proto_field.normalized_name

\* two C++ entities of one normalized name, a proto message paired with the
\* second, and a field of it linked to the second by the nested-type lookup
C26_Witness ==
    /\ mpc = "returned"
    /\ Len(cpp_messages) = 2
    /\ cpp_messages[1].normalized_name = cpp_messages[2].normalized_name
    /\ \E k \in DOMAIN matches :
          /\ matches[k].cpp_message = 2
          /\ \E j \in DOMAIN matches[k].field_mappings :
                /\ mapped_proto_field(matches[k].field_mappings[j]).is_nested
                /\ mapped_cpp_field(matches[k].field_mappings[j]).nested_type = Some(2)


\* ------------------------------------------------------------------------
\* CppParser.parse and ProtoParser.parse, one round of the top-level loop at
\* a time, on token lists the grammar accepts and on lists it does not
\* ------------------------------------------------------------------------
MaxFragments == 3

\* the tokens of a list of lexemes (the line and the column play no part)
as_tokens(lexs) == [k \in DOMAIN lexs |-> Token(lexs[k][1], lexs[k][2], 1, 1)]

\* pieces of a header: every kind of token alone, and runs that open and
\* close records and declare fields
CppFragments ==
    { <<Lexeme(t, <<>>)>> :
        t \in {"STRUCT", "TYPEDEF", "CHAR", "LBRACE", "RBRACE", "SEMICOLON", "LANGLE",
               "RANGLE", "LBRACKET", "RBRACKET", "COLONCOLON", "COLON"} }
      \cup { <<Lexeme("IDENT", v)>> : v \in {<<"a">>, w_std, w_vector, w_public} }
      \cup { <<Lexeme("NUMBER", <<"3">>)>>,
             <<Lexeme("STRUCT", <<>>), Lexeme("IDENT", <<"S">>), Lexeme("LBRACE", <<>>)>>,
             <<Lexeme("STRUCT", <<>>), Lexeme("LBRACE", <<>>)>>,
             <<Lexeme("IDENT", w_int), Lexeme("IDENT", <<"a">>), Lexeme("SEMICOLON", <<>>)>>,
             <<Lexeme("RBRACE", <<>>), Lexeme("SEMICOLON", <<>>)>>,
             <<Lexeme("RBRACE", <<>>), Lexeme("IDENT", <<"b">>), Lexeme("SEMICOLON", <<>>)>>,
             <<Lexeme("IDENT", w_std), Lexeme("COLONCOLON", <<>>)>> }

\* pieces of a .proto file
ProtoFragments ==
    { <<Lexeme(t, <<>>)>> :
        t \in {"MESSAGE", "REPEATED", "SYNTAX", "PACKAGE", "OPTION", "RESERVED", "IMPORT",
               "ENUM", "ONEOF", "LBRACE", "RBRACE", "SEMICOLON", "EQUALS", "STRING_LIT"} }
      \cup { <<Lexeme("IDENT", <<"a">>)>>,
             <<Lexeme("NUMBER", <<"3">>)>>,
             <<Lexeme("MESSAGE", <<>>), Lexeme("IDENT", <<"M">>), Lexeme("LBRACE", <<>>)>>,
             <<Lexeme("IDENT", w_int32), Lexeme("IDENT", <<"a">>), Lexeme("EQUALS", <<>>),
               Lexeme("NUMBER", <<"1">>), Lexeme("SEMICOLON", <<>>)>>,
             <<Lexeme("ENUM", <<>>), Lexeme("IDENT", <<"E">>), Lexeme("LBRACE", <<>>)>> }

\* the fragments of a list one after the other
RECURSIVE joined(_)
joined(frags) == IF frags = <<>> THEN <<>> ELSE Head(frags) \o joined(Tail(frags))

\* the EOF-terminated token lists of up to MaxFragments fragments
FragmentLists(pool) ==
    { as_tokens(joined(frags) \o <<Lexeme("EOF", <<>>)>>) :
        frags \in UNION {[1..k -> pool] : k \in 0..MaxFragments} }

\* the lexemes of whole files with records inside records:
\*   struct S { struct { int a; } b; struct S { int a; }; int a; };
\*   struct S { std:: a struct S { struct { int a; } b; }; }; struct S { int a; };
CppWholeFiles ==
    { << <<Lexeme("STRUCT", <<>>), Lexeme("IDENT", <<"S">>), Lexeme("LBRACE", <<>>)>>,
         <<Lexeme("STRUCT", <<>>), Lexeme("LBRACE", <<>>)>>,
         <<Lexeme("IDENT", w_int), Lexeme("IDENT", <<"a">>), Lexeme("SEMICOLON", <<>>)>>,
         <<Lexeme("RBRACE", <<>>), Lexeme("IDENT", <<"b">>), Lexeme("SEMICOLON", <<>>)>>,
         <<Lexeme("STRUCT", <<>>), Lexeme("IDENT", <<"S">>), Lexeme("LBRACE", <<>>)>>,
         <<Lexeme("IDENT", w_int), Lexeme("IDENT", <<"a">>), Lexeme("SEMICOLON", <<>>)>>,
         <<Lexeme("RBRACE", <<>>), Lexeme("SEMICOLON", <<>>)>>,
         <<Lexeme("IDENT", w_int), Lexeme("IDENT", <<"a">>), Lexeme("SEMICOLON", <<>>)>>,
         <<Lexeme("RBRACE", <<>>), Lexeme("SEMICOLON", <<>>)>> >>,
      << <<Lexeme("STRUCT", <<>>), Lexeme("IDENT", <<"S">>), Lexeme("LBRACE", <<>>)>>,
         <<Lexeme("IDENT", w_std), Lexeme("COLONCOLON", <<>>)>>,
         <<Lexeme("IDENT", <<"a">>)>>,
         <<Lexeme("STRUCT", <<>>), Lexeme("IDENT", <<"S">>), Lexeme("LBRACE", <<>>)>>,
         <<Lexeme("STRUCT", <<>>), Lexeme("LBRACE", <<>>)>>,
         <<Lexeme("IDENT", w_int), Lexeme("IDENT", <<"a">>), Lexeme("SEMICOLON", <<>>)>>,
         <<Lexeme("RBRACE", <<>>), Lexeme("IDENT", <<"b">>), Lexeme("SEMICOLON", <<>>)>>,
         <<Lexeme("RBRACE", <<>>), Lexeme("SEMICOLON", <<>>)>>,
         <<Lexeme("RBRACE", <<>>), Lexeme("SEMICOLON", <<>>)>>,
         <<Lexeme("STRUCT", <<>>), Lexeme("IDENT", <<"S">>), Lexeme("LBRACE", <<>>)>>,
         <<Lexeme("IDENT", w_int), Lexeme("IDENT", <<"a">>), Lexeme("SEMICOLON", <<>>)>>,
         <<Lexeme("RBRACE", <<>>), Lexeme("SEMICOLON", <<>>)>> >> }

\*   message M { int32 a = 1; message M { enum E { a } int32 a = 1; } } message M { }
\*   message M { message M { int32 a = 1; = } }
ProtoWholeFiles ==
    { << <<Lexeme("MESSAGE", <<>>), Lexeme("IDENT", <<"M">>), Lexeme("LBRACE", <<>>)>>,
         <<Lexeme("IDENT", w_int32), Lexeme("IDENT", <<"a">>), Lexeme("EQUALS", <<>>),
           Lexeme("NUMBER", <<"1">>), Lexeme("SEMICOLON", <<>>)>>,
         <<Lexeme("MESSAGE", <<>>), Lexeme("IDENT", <<"M">>), Lexeme("LBRACE", <<>>)>>,
         <<Lexeme("ENUM", <<>>), Lexeme("IDENT", <<"E">>), Lexeme("LBRACE", <<>>)>>,
         <<Lexeme("IDENT", <<"a">>)>>,
         <<Lexeme("RBRACE", <<>>)>>,
         <<Lexeme("IDENT", w_int32), Lexeme("IDENT", <<"a">>), Lexeme("EQUALS", <<>>),
           Lexeme("NUMBER", <<"1">>), Lexeme("SEMICOLON", <<>>)>>,
         <<Lexeme("RBRACE", <<>>)>>,
         <<Lexeme("RBRACE", <<>>)>>,
         <<Lexeme("MESSAGE", <<>>), Lexeme("IDENT", <<"M">>), Lexeme("LBRACE", <<>>)>>,
         <<Lexeme("RBRACE", <<>>)>> >>,
      << <<Lexeme("MESSAGE", <<>>), Lexeme("IDENT", <<"M">>), Lexeme("LBRACE", <<>>)>>,
         <<Lexeme("MESSAGE", <<>>), Lexeme("IDENT", <<"M">>), Lexeme("LBRACE", <<>>)>>,
         <<Lexeme("IDENT", w_int32), Lexeme("IDENT", <<"a">>), Lexeme("EQUALS", <<>>),
           Lexeme("NUMBER", <<"1">>), Lexeme("SEMICOLON", <<>>)>>,
         <<Lexeme("EQUALS", <<>>)>>,
         <<Lexeme("RBRACE", <<>>)>>,
         <<Lexeme("RBRACE", <<>>)>> >> }

\* the token lists of the whole files
WholeFileLists(files) ==
    { as_tokens(joined(frags) \o <<Lexeme("EOF", <<>>)>>) : frags \in files }

CppTokenLists == FragmentLists(CppFragments) \cup WholeFileLists(CppWholeFiles)
ProtoTokenLists == FragmentLists(ProtoFragments) \cup WholeFileLists(ProtoWholeFiles)

InitParse ==
    /\ IdleMatch /\ IdleNorm /\ IdleCpp /\ IdleAlias /\ IdleProto /\ IdleFile /\ IdleRun /\ IdleRep
    /\ \/ t_lang = "cpp" /\ tokens \in CppTokenLists
       \/ t_lang = "proto" /\ tokens \in ProtoTokenLists
    /\ text = <<>>
    /\ t_i = 0
    /\ line = 1
    /\ col = 1
    /\ tpc = "returned"
    /\ self_pos = 0
    /\ acc_aliases = <<>>
    /\ acc_structs = <<>>
    /\ acc_messages = <<>>
    /\ ppc = "loop"

\* mutant of top_level_cpp: a token that opens no declaration is not consumed
top_level_cpp_stay(p) ==
    IF tokens[p + 1].type = "TYPEDEF" THEN parse_typedef(p)
    ELSE IF tokens[p + 1].type = "STRUCT" THEN parse_top_level_struct(p)
    ELSE Node(p, None)

\* one round of the while loop of CppParser.parse with self._pos = p: the
\* position after it and the node it appends, or the raised CppParseError
top_level_cpp(p) ==
    IF tokens[p + 1].type = "TYPEDEF" THEN parse_typedef(p)
    ELSE IF tokens[p + 1].type = "STRUCT" THEN parse_top_level_struct(p)
    ELSE Node(advance(p), None)

\* one round of the while loop of ProtoParser.parse with self._pos = p
top_level_proto(p) ==
    IF tokens[p + 1].type = "MESSAGE" THEN parse_message(p)
    ELSE IF tokens[p + 1].type \in {"SYNTAX", "PACKAGE", "OPTION", "IMPORT", "RESERVED"}
    THEN [err |-> FALSE, pos |-> skip_statement(p)]
    ELSE IF tokens[p + 1].type = "ENUM" THEN [err |-> FALSE, pos |-> skip_block(p)]
    ELSE [err |-> FALSE, pos |-> advance(p)]

\* a round of `while not self._at_end()` of CppParser.parse that raises nothing
ParseTopLevelCpp ==
    /\ t_lang = "cpp"
    /\ ppc = "loop"
    /\ ~at_end(self_pos)
    /\ ~top_level_cpp(self_pos).err
    /\ self_pos' = top_level_cpp(self_pos).pos
    /\ acc_aliases' =
          IF top_level_cpp(self_pos).node # None
                /\ Val(top_level_cpp(self_pos).node).node = "CppTypeAlias"
          THEN Append(acc_aliases, Val(top_level_cpp(self_pos).node)) ELSE acc_aliases
    /\ acc_structs' =
          IF top_level_cpp(self_pos).node # None
                /\ Val(top_level_cpp(self_pos).node).node = "CppStruct"
          THEN Append(acc_structs, Val(top_level_cpp(self_pos).node)) ELSE acc_structs
    /\ UNCHANGED <<acc_messages, ppc>>

\* a round of the loop of CppParser.parse that raises CppParseError
RaiseCppParseError ==
    /\ t_lang = "cpp"
    /\ ppc = "loop"
    /\ ~at_end(self_pos)
    /\ top_level_cpp(self_pos).err
    /\ self_pos' = top_level_cpp(self_pos).pos
    /\ ppc' = "raised"
    /\ UNCHANGED <<acc_aliases, acc_structs, acc_messages>>

\* a round of `while not self._at_end()` of ProtoParser.parse that raises nothing
ParseTopLevelProto ==
    /\ t_lang = "proto"
    /\ ppc = "loop"
    /\ ~at_end(self_pos)
    /\ ~top_level_proto(self_pos).err
    /\ self_pos' = top_level_proto(self_pos).pos
    /\ acc_messages' =
          IF tokens[self_pos + 1].type = "MESSAGE"
          THEN Append(acc_messages, top_level_proto(self_pos).message) ELSE acc_messages
    /\ UNCHANGED <<acc_aliases, acc_structs, ppc>>

\* a round of the loop of ProtoParser.parse that raises ProtoParseError
RaiseProtoParseError ==
    /\ t_lang = "proto"
    /\ ppc = "loop"
    /\ ~at_end(self_pos)
    /\ top_level_proto(self_pos).err
    /\ self_pos' = top_level_proto(self_pos).pos
    /\ ppc' = "raised"
    /\ UNCHANGED <<acc_aliases, acc_structs, acc_messages>>

\* `return CppHeader(...)`, `return ProtoFile(...)`
ReturnParsed ==
    /\ ppc = "loop"
    /\ at_end(self_pos)
    /\ ppc' = "returned"
    /\ UNCHANGED <<self_pos, acc_aliases, acc_structs, acc_messages>>

NextParse ==
    \/ ParseTopLevelCpp /\ UNCHANGED notParseVars
    \/ RaiseCppParseError /\ UNCHANGED notParseVars
    \/ ParseTopLevelProto /\ UNCHANGED notParseVars
    \/ RaiseProtoParseError /\ UNCHANGED notParseVars
    \/ ReturnParsed /\ UNCHANGED notParseVars

SpecParse == InitParse /\ [][NextParse]_vars

\* a call that was started runs on: the parser is sequential code
FairSpecParse == SpecParse /\ WF_vars(NextParse)

\* the index of the EOF token, counted from 0
eof_index == Len(tokens) - 1

\* a position a helper ended at, having started at p: not before p, not
\* beyond EOF, and past p if `moved` is asked for
EndsAt(q, p, moved) == q \in p..eof_index /\ (moved => q > p)

\* the skip helpers and the body loop of CppParser, started anywhere
CppHelpersAdvance ==
    \A p \in 0..eof_index :
        /\ EndsAt(skip_to_semicolon(p), p, ~at_end(p))
        /\ EndsAt(skip_to_matching_brace(p), p, tokens[p + 1].type = "LBRACE")
        /\ \/ parse_struct_body(p).err
           \/ /\ EndsAt(parse_struct_body(p).pos, p, FALSE)
              /\ \/ at_end(parse_struct_body(p).pos)
                 \/ peek(parse_struct_body(p).pos).type = "RBRACE"
        /\ (/\ ~at_end(p)
            /\ ~try_parse_field_decl(p).err
            /\ try_parse_field_decl(p).field = None)
           => /\ EndsAt(try_parse_field_decl(p).pos, p, FALSE)
              /\ try_parse_field_decl(p).pos = p => advance(p) = p + 1

\* the skip helpers and the body loop of ProtoParser, started anywhere
ProtoHelpersAdvance ==
    \A p \in 0..eof_index :
        /\ EndsAt(skip_statement(p), p, ~at_end(p))
        /\ EndsAt(skip_block(p), p, ~at_end(p))
        /\ \/ parse_message_body(p).err
           \/ /\ EndsAt(parse_message_body(p).pos, p, FALSE)
              /\ \/ at_end(parse_message_body(p).pos)
                 \/ peek(parse_message_body(p).pos).type = "RBRACE"

\* what the rounds of the top-level loop came to is what parse() gives
ParseOutcome ==
    /\ (ppc = "returned" /\ t_lang = "cpp") =>
          parse = CppHeader(acc_aliases, acc_structs) /\ at_end(self_pos)
    /\ (ppc = "raised" /\ t_lang = "cpp") => parse.err
    /\ (ppc = "returned" /\ t_lang = "proto") =>
          proto_parse = ProtoFile(acc_messages) /\ at_end(self_pos)
    /\ (ppc = "raised" /\ t_lang = "proto") => proto_parse.err

\* the position is an index of the list, the EOF token is the last one
PositionValid ==
    /\ self_pos \in 0..eof_index
    /\ tokens[Len(tokens)].type = "EOF"
    /\ (ppc = "loop" /\ self_pos = 0 /\ t_lang = "cpp") => CppHelpersAdvance
    /\ (ppc = "loop" /\ self_pos = 0 /\ t_lang = "proto") => ProtoHelpersAdvance

\* C27: CppParser.parse and ProtoParser.parse terminate on every
\* EOF-terminated token list, by returning or by raising a parse error: the
\* position is always an index not beyond the EOF token, the skip helpers and
\* the body loops end at such an index and past their start where a token is
\* there to consume, a failed field attempt that is back at the saved
\* position is followed by an advance that moves, every round of the
\* top-level loop moves the position forward, and the call comes to its end.
C27_ParsersTerminate ==
    /\ [](PositionValid /\ ParseOutcome)
    /\ [][ppc = "loop" /\ ppc' = "loop" => self_pos' > self_pos]_parseVars
    /\ <>(ppc \in {"returned", "raised"})

\* a header whose record is parsed to its end and one whose record body
\* raises: `struct S { int a; };` returned, with the struct in the result
C27_Witness ==
    /\ ppc = "returned"
    /\ t_lang = "cpp"
    /\ Len(acc_structs) = 1
    /\ acc_structs[1].fields # <<>>
    /\ Len(tokens) = 9


\* ------------------------------------------------------------------------
\* What match_messages writes
\* ------------------------------------------------------------------------
\* a C++ Field before and after a step: the names and the type are kept, the
\* two flags are not taken back
FieldKept(before, after) ==
    /\ after.original_name = before.original_name
    /\ after.normalized_name = before.normalized_name
    /\ after.type_name = before.type_name
    /\ before.is_repeated => after.is_repeated
    /\ before.is_nested => after.is_nested

\* the Field at <<k, j>> is the one the running pass of the field loop pairs
IsPairedNow(k, j) ==
    /\ mpc = "fields"
    /\ fi <= Len(proto_msg.fields)
    /\ cpp_msg = Some(k)
    /\ cpp_field = Some(j)

\* one step of match_messages leaves the proto side as it is and, on the C++
\* side, the lists, the names and the types; a Field that differs after the
\* step is the one the step paired
MatcherFrame ==
    /\ proto_messages' = proto_messages
    /\ DOMAIN cpp_messages' = DOMAIN cpp_messages
    /\ \A k \in DOMAIN cpp_messages :
          /\ cpp_messages'[k].original_name = cpp_messages[k].original_name
          /\ cpp_messages'[k].normalized_name = cpp_messages[k].normalized_name
          /\ DOMAIN cpp_messages'[k].fields = DOMAIN cpp_messages[k].fields
          /\ \A j \in DOMAIN cpp_messages[k].fields :
                /\ FieldKept(cpp_messages[k].fields[j], cpp_messages'[k].fields[j])
                /\ cpp_messages'[k].fields[j] # cpp_messages[k].fields[j]
                      => IsPairedNow(k, j)

\* C28: match_messages modifies nothing on the proto side and on the C++ side
\* changes only is_repeated, is_nested and nested_type of fields that get
\* paired; the two flags only go from false to true, and names, type_name,
\* field lists and their order stay as they were.
C28_MatcherFrame == [][MatcherFrame]_vars

\* the field xY of the struct A_B, declared `C xY;` and neither repeated nor
\* linked, has been paired with a repeated nested proto field of one proto
\* message and after that with a proto field of a second message that is
\* neither repeated nor nested: it is still repeated and linked
C28_Witness ==
    /\ mpc = "returned"
    /\ Len(matches) = 2
    /\ \E k \in DOMAIN cpp_messages :
          /\ cpp_messages[k].original_name = n_A_B
          /\ cpp_messages[k].fields[2] = Field(n_xY, n_C, TRUE, TRUE, Some(k))
          /\ matches[1].cpp_message = k
          /\ matches[2].cpp_message = k
          /\ \E m \in DOMAIN matches[1].field_mappings :
                /\ matches[1].field_mappings[m].cpp_field = <<k, 2>>
                /\ mapped_proto_field(matches[1].field_mappings[m]).is_repeated
          /\ \E m \in DOMAIN matches[2].field_mappings :
                /\ matches[2].field_mappings[m].cpp_field = <<k, 2>>
                /\ ~mapped_proto_field(matches[2].field_mappings[m]).is_repeated
                /\ ~mapped_proto_field(matches[2].field_mappings[m]).is_nested
          /\ \A m \in DOMAIN matches[2].field_mappings :
                ~mapped_proto_field(matches[2].field_mappings[m]).is_repeated


\* ------------------------------------------------------------------------
\* The state match_messages leaves behind when it raises
\* ------------------------------------------------------------------------
\* every FieldMapping built so far, in the order of the pairings: those of
\* the matches appended and those of the running _match_fields call
all_mappings ==
    joined([k \in DOMAIN matches |-> matches[k].field_mappings]) \o mappings

\* the pairings of the C++ Field at <<k, j>> so far: positions in all_mappings
PairingsOf(k, j) == {m \in DOMAIN all_mappings : all_mappings[m].cpp_field = <<k, j>>}

\* the pairings of <<k, j>> whose proto field is nested and whose lookup
\* found a C++ entity
LinkingsOf(k, j) ==
    {m \in PairingsOf(k, j) :
        /\ mapped_proto_field(all_mappings[m]).is_nested
        /\ CppPositionsNamed(lookup_name(mapped_proto_field(all_mappings[m]))) # {}}

LastLinkingOf(k, j) ==
    CHOOSE m \in LinkingsOf(k, j) : \A m2 \in LinkingsOf(k, j) : m2 <= m

\* the Field at <<k, j>> holds what its pairings so far gave it, and what
\* the caller passed where no pairing wrote
KeepsPairings(k, j) ==
    /\ cpp_messages[k].fields[j].is_repeated =
          (\/ cpp_given[k].fields[j].is_repeated
           \/ \E m \in PairingsOf(k, j) : mapped_proto_field(all_mappings[m]).is_repeated)
    /\ cpp_messages[k].fields[j].is_nested =
          (cpp_given[k].fields[j].is_nested \/ LinkingsOf(k, j) # {})
    /\ cpp_messages[k].fields[j].nested_type =
          IF LinkingsOf(k, j) # {}
          THEN Some(LastCppNamed(lookup_name(
                       mapped_proto_field(all_mappings[LastLinkingOf(k, j)]))))
          ELSE cpp_given[k].fields[j].nested_type

\* C29: match_messages is not rolled back on failure: when it has raised
\* MatchError, the C++ fields paired before the offending proto field, in
\* earlier proto messages and earlier in the same message, hold the
\* is_repeated, is_nested and nested_type values the matcher gave them, and a
\* C++ field that no pairing reached, one that would have been paired after
\* the offending field among them, is as the caller passed it.
C29_NoRollback ==
    mpc = "raised" =>
        \A k \in DOMAIN cpp_messages : \A j \in DOMAIN cpp_messages[k].fields :
            /\ KeepsPairings(k, j)
            /\ PairingsOf(k, j) = {} => cpp_messages[k].fields[j] = cpp_given[k].fields[j]

\* the first field of the second proto message has no counterpart; a field
\* paired for the first message differs from what the caller passed, and the
\* counterpart of the second field of the second message, which the nested
\* branch would have written to, is untouched
C29_Witness ==
    /\ mpc = "raised"
    /\ mi = 2
    /\ fi = 1
    /\ Len(matches) = 1
    /\ \E m \in DOMAIN matches[1].field_mappings :
          mapped_cpp_field(matches[1].field_mappings[m])
             # cpp_given[matches[1].field_mappings[m].cpp_field[1]]
                  .fields[matches[1].field_mappings[m].cpp_field[2]]
    /\ Len(proto_msg.fields) = 2
    /\ proto_msg.fields[2].is_nested
    /\ CppPositionsNamed(lookup_name(proto_msg.fields[2])) # {}
    /\ \E j \in DOMAIN cpp_messages[Val(cpp_msg)].fields :
          /\ cpp_messages[Val(cpp_msg)].fields[j].normalized_name
                = proto_msg.fields[2].normalized_name
          /\ PairingsOf(Val(cpp_msg), j) = {}
          /\ ~cpp_messages[Val(cpp_msg)].fields[j].is_nested


\* ------------------------------------------------------------------------
\* The C++ fields of the mappings of one MessageMatch
\* ------------------------------------------------------------------------
\* the mappings fms pair the first Len(fms) fields of the proto message p
\* with fields of the C++ struct c: each cpp_field is a Field of c.fields, of
\* the normalized name of the proto field and the last of that name in c;
\* two proto fields share their C++ field exactly if they share their
\* normalized name
PairsWithin(fms, p, c) ==
    /\ \A m \in DOMAIN fms :
          /\ fms[m].proto_field = <<p, m>>
          /\ fms[m].cpp_field[1] = c
          /\ fms[m].cpp_field[2] \in DOMAIN cpp_messages[c].fields
          /\ mapped_cpp_field(fms[m]).normalized_name
                = mapped_proto_field(fms[m]).normalized_name
          /\ \A j \in DOMAIN cpp_messages[c].fields :
                cpp_messages[c].fields[j].normalized_name
                      = mapped_proto_field(fms[m]).normalized_name
                   => j <= fms[m].cpp_field[2]
    /\ \A m1, m2 \in DOMAIN fms :
          (fms[m1].cpp_field = fms[m2].cpp_field)
             <=> (mapped_proto_field(fms[m1]).normalized_name
                     = mapped_proto_field(fms[m2]).normalized_name)

\* C30: within one MessageMatch each FieldMapping's cpp_field is the very
\* Field held in cpp_message.fields; proto fields of distinct normalized
\* names are paired with distinct C++ fields, two proto fields of the same
\* normalized name with the same C++ Field, and of two C++ fields of one
\* normalized name the last one in the struct is the one paired.
C30_MappedFields ==
    /\ \A k \in DOMAIN matches :
          /\ PairsWithin(matches[k].field_mappings, matches[k].proto_message,
                         matches[k].cpp_message)
          /\ Len(matches[k].field_mappings)
                = Len(proto_messages[matches[k].proto_message].fields)
    /\ mpc = "fields" => PairsWithin(mappings, mi, Val(cpp_msg))

\* the proto fields x_y and xY of one message are both paired with the
\* second of the two C++ fields x_y and xY of the struct A_B
C30_Witness ==
    /\ mpc = "returned"
    /\ \E k \in DOMAIN matches :
          /\ cpp_messages[matches[k].cpp_message].original_name = n_A_B
          /\ Len(matches[k].field_mappings) = 2
          /\ mapped_proto_field(matches[k].field_mappings[1]).original_name = n_x_y
          /\ mapped_proto_field(matches[k].field_mappings[2]).original_name = n_xY
          /\ matches[k].field_mappings[1].cpp_field = <<matches[k].cpp_message, 2>>
          /\ matches[k].field_mappings[2].cpp_field = <<matches[k].cpp_message, 2>>
          /\ cpp_messages[matches[k].cpp_message].fields[1].normalized_name
                = cpp_messages[matches[k].cpp_message].fields[2].normalized_name

=============================================================================
